---- MODULE Spec2Model ----
(***************************************************************************)
(* Model of the context rules of voravia-frontend                          *)
(* (src/context/contextRules.ts and the hook useContextGate that composes  *)
(* them).                                                                  *)
(*                                                                         *)
(* JavaScript values are encoded as strings.  UNDEF and NULL stand for the *)
(* values undefined and null, "" is the empty string, and every other      *)
(* string is itself.  An optional object (me, opts) is a record whose      *)
(* field kind says whether the object is there, so that the optional       *)
(* chaining me?.familyId of the source is computed, not assumed.           *)
(***************************************************************************)
EXTENDS Integers, Sequences, FiniteSets, TLC

UNDEF == "undefined"
NULL == "null"
NONE == "not-called"

\* Number of distinct non-empty identifiers a familyId / corporateId is drawn from.
MaxIds == 1

FamilyIdPool == <<"F1", "F2", "F3">>
CorporateIdPool == <<"CORP-X", "C1", "C2">>

\* type ContextScope = "individual" | "family" | "workplace"
ContextScope == {"individual", "family", "workplace"}

\* familyId?: string | null ; corporateId?: string | null
FamilyIdValues == {UNDEF, NULL, ""} \cup {FamilyIdPool[i] : i \in 1..MaxIds}
CorporateIdValues == {UNDEF, NULL, ""} \cup {CorporateIdPool[i] : i \in 1..MaxIds}

\* me?: MeUser | null
MeUser ==
  {[kind |-> k, id |-> UNDEF, familyId |-> UNDEF, corporateId |-> UNDEF] : k \in {UNDEF, NULL}}
  \cup [kind : {"object"}, id : {UNDEF, "head"}, familyId : FamilyIdValues, corporateId : CorporateIdValues]

\* opts?: ContextGateOpts, hasFamilyGroup?: boolean
ContextGateOpts ==
  {[kind |-> UNDEF, hasFamilyGroup |-> UNDEF]}
  \cup [kind : {"object"}, hasFamilyGroup : {UNDEF, "false", "true"}]

\* type ContextEligibility = Record<ContextScope, boolean>
ContextEligibility == [ContextScope -> BOOLEAN]

\* JavaScript ToBoolean (the !! of the source) on the encoded values.
Truthy(v) == v \notin {UNDEF, NULL, "", "false"}

\* Optional chaining: me?.familyId, me?.corporateId, opts?.hasFamilyGroup.
OptFamilyId(me) == IF me.kind = "object" THEN me.familyId ELSE UNDEF
OptCorporateId(me) == IF me.kind = "object" THEN me.corporateId ELSE UNDEF
OptHasFamilyGroup(opts) == IF opts.kind = "object" THEN opts.hasFamilyGroup ELSE UNDEF

\* CONTEXT_ORDER declared from the widest scope down.
CONTEXT_ORDER_Reversed == <<"workplace", "family", "individual">>

CONTEXT_ORDER == <<"individual", "family", "workplace">>

\* Variants of isContextAvailable with one slip each.
isContextAvailableNeedsActor(scope, me, opts) ==
  CASE scope = "individual" -> me.kind = "object"
    [] scope = "family" -> Truthy(OptFamilyId(me)) \/ Truthy(OptHasFamilyGroup(opts))
    [] scope = "workplace" -> Truthy(OptCorporateId(me))

isContextAvailableFamilyAnd(scope, me, opts) ==
  CASE scope = "individual" -> TRUE
    [] scope = "family" -> Truthy(OptFamilyId(me)) /\ Truthy(OptHasFamilyGroup(opts))
    [] scope = "workplace" -> Truthy(OptCorporateId(me))

isContextAvailableCorporateDefined(scope, me, opts) ==
  CASE scope = "individual" -> TRUE
    [] scope = "family" -> Truthy(OptFamilyId(me)) \/ Truthy(OptHasFamilyGroup(opts))
    [] scope = "workplace" -> OptCorporateId(me) # UNDEF

isContextAvailable(scope, me, opts) ==
  CASE scope = "individual" -> TRUE
    [] scope = "family" -> Truthy(OptFamilyId(me)) \/ Truthy(OptHasFamilyGroup(opts))
    [] scope = "workplace" -> Truthy(OptCorporateId(me))

\* The for loop of clampContext from position i on, and the return after it.
RECURSIVE FirstAvailableFrom(_, _, _)
FirstAvailableFrom(i, me, opts) ==
  IF i > Len(CONTEXT_ORDER) THEN "individual"
  ELSE IF isContextAvailable(CONTEXT_ORDER[i], me, opts) THEN CONTEXT_ORDER[i]
  ELSE FirstAvailableFrom(i + 1, me, opts)

\* Variants of clampContext with one slip each: the desired scope returned
\* unchecked, the desired scope ignored, and a fallback one step down the order.
clampContextUnchecked(current, me, opts) ==
  IF Truthy(current) THEN current
  ELSE FirstAvailableFrom(1, me, opts)

clampContextIgnoresCurrent(current, me, opts) ==
  FirstAvailableFrom(1, me, opts)

clampContextStepDown(current, me, opts) ==
  IF Truthy(current) /\ isContextAvailable(current, me, opts) THEN current
  ELSE IF current = "workplace" THEN "family"
  ELSE "individual"

clampContext(current, me, opts) ==
  IF Truthy(current) /\ isContextAvailable(current, me, opts) THEN current
  ELSE FirstAvailableFrom(1, me, opts)

\* Variant: the workplace entry copied from the family entry.
getContextEligibilityCopied(me, opts) ==
  [individual |-> isContextAvailable("individual", me, opts),
   family |-> isContextAvailable("family", me, opts),
   workplace |-> isContextAvailable("family", me, opts)]

getContextEligibility(me, opts) ==
  [individual |-> isContextAvailable("individual", me, opts),
   family |-> isContextAvailable("family", me, opts),
   workplace |-> isContextAvailable("workplace", me, opts)]

\* Variants: individual listed without looking at the map, and the list reversed.
getAvailableContextsAlwaysIndividual(eligibility) ==
  <<"individual">> \o SelectSeq(Tail(CONTEXT_ORDER), LAMBDA ctx : eligibility[ctx])

RECURSIVE Reverse(_)
Reverse(q) == IF q = <<>> THEN <<>> ELSE Reverse(Tail(q)) \o <<Head(q)>>

getAvailableContextsReversed(eligibility) ==
  Reverse(SelectSeq(CONTEXT_ORDER, LAMBDA ctx : eligibility[ctx]))

getAvailableContexts(eligibility) ==
  SelectSeq(CONTEXT_ORDER, LAMBDA ctx : eligibility[ctx])

\* The screens (app/context-gate.tsx, app/(tabs)/groups.tsx, app/(tabs)/profile.tsx,
\* app/groups/join-family.tsx, app/groups/create-family.tsx) and the stores they share
VARIABLES
  appCtx,      \* the item under "voravia.appContext.v1"
  usersItem,   \* the list under "voravia.users.v1", by user id
  groupsCount, \* the number of Family groups under "voravia.groups.v1"
  screen,      \* the screen in focus
  taps,        \* the number of user actions so far
  gateS,       \* ContextGate: its React state and the force parameter
  gateLoad,    \* ContextGate: the load of its useEffect
  gateChoose,  \* ContextGate: choose
  grpS,        \* GroupsScreen: its React state
  grpLoad,     \* GroupsScreen: the load of its useFocusEffect
  grpSeed,     \* GroupsScreen: devSeed
  profS,       \* ProfileScreen: its React state
  profLoad,    \* ProfileScreen: the load of its useFocusEffect
  profSave,    \* ProfileScreen: onSave
  profSetUser, \* ProfileScreen: setActiveUser
  joinS,       \* JoinFamilyScreen: its React state
  joinLoad,    \* JoinFamilyScreen: the load of its useFocusEffect
  joinOp,      \* JoinFamilyScreen: onJoin
  createOp     \* CreateFamilyScreen: onSave

appStores == <<appCtx, usersItem, groupsCount>>
appVars == <<appStores, screen, taps, gateS, gateLoad, gateChoose, grpS, grpLoad, grpSeed,
             profS, profLoad, profSave, profSetUser, joinS, joinLoad, joinOp, createOp>>

\* The active context (src/storage/context.ts, src/hooks/useActiveContext.ts,
\* src/components/ContextSwitcher.tsx)
VARIABLES
  activeItem,   \* the item under "voravia.activeContext.v1"
  hook,         \* useActiveContext: ctx and ready
  hookRefresh,  \* useActiveContext: refresh
  switcher      \* ContextSwitcher: its options and open

activeVars == <<activeItem, hook, hookRefresh, switcher>>

\* useMe (src/hooks/useMe.ts)
VARIABLES
  useMeS,        \* useMe: me, loading and error
  requestIdRef,  \* useMe: requestIdRef.current
  meReqs         \* the /v1/me requests of refresh, by requestId

meVars == <<useMeS, requestIdRef, meReqs>>

\* AssignInsuranceScreen (app/groups/assign-insurance.tsx) and the users store
VARIABLES
  insUsersItem,  \* the list under "voravia.users.v1", by user id
  insS,          \* AssignInsuranceScreen: its React state
  insApply,      \* AssignInsuranceScreen: onApply
  upserts        \* the upsertUser calls of onApply, by user id

insVars == <<insUsersItem, insS, insApply, upserts>>

hookVars == <<activeVars, meVars, insVars>>

\* Context storage (src/storage/appContext.ts)
VARIABLES
  ctxItem,    \* the item under KEY in AsyncStorage
  calls,      \* the getAppContext / setAppContext calls, by number
  writeLog    \* the setItem calls applied to KEY, in order

storeVars == <<ctxItem, calls, writeLog>>

\* The two normalizeSegment functions
VARIABLES
  normSeg,         \* the argument seg
  normRet,         \* result of normalizeSegment(seg) of appContext.ts
  normProfileRet,  \* result of normalizeSegment(seg) of profile.tsx
  normChainRet     \* profile.tsx line 166 on the segment getAppContext returns for seg

normalizeVars == <<normSeg, normRet, normProfileRet, normChainRet>>

VARIABLES
  desired,      \* argument current of clampContext: a scope or undefined
  me,           \* argument me
  opts,         \* argument opts
  called,       \* the functions called so far
  availRet,     \* last isContextAvailable call: its scope and its result
  clamped,      \* result of clampContext(desired, me, opts)
  reclamped,    \* result of clampContext(clamped, me, opts)
  eligibility,  \* result of getContextEligibility(me, opts)
  available,    \* useContextGate: getAvailableContexts(eligibility)
  filtered      \* last direct getAvailableContexts call: its argument and its result

rulesVars == <<desired, me, opts, called, availRet, clamped, reclamped, eligibility, available, filtered>>

inputs == <<desired, me, opts>>

\* The variables of the other sections, for the frame conditions.
otherThanRules == <<storeVars, normalizeVars, appVars, hookVars>>
otherThanStore == <<rulesVars, normalizeVars, appVars, hookVars>>
otherThanNormalize == <<rulesVars, storeVars, appVars, hookVars>>
otherThanApp == <<rulesVars, storeVars, normalizeVars, hookVars>>
otherThanActive == <<rulesVars, storeVars, normalizeVars, appVars, meVars, insVars>>
otherThanMe == <<rulesVars, storeVars, normalizeVars, appVars, activeVars, insVars>>
otherThanIns == <<rulesVars, storeVars, normalizeVars, appVars, activeVars, meVars>>

NoEligibility == [s \in ContextScope |-> FALSE]

InitRules ==
  /\ desired \in ContextScope \cup {UNDEF}
  /\ me \in MeUser
  /\ opts \in ContextGateOpts
  /\ called = {}
  /\ availRet = [scope |-> NONE, value |-> FALSE]
  /\ clamped = NONE
  /\ reclamped = NONE
  /\ eligibility = NoEligibility
  /\ available = <<>>
  /\ filtered = [arg |-> NoEligibility, ret |-> <<>>]

CallIsContextAvailable(scope) ==
  /\ availRet' = [scope |-> scope, value |-> isContextAvailable(scope, me, opts)]
  /\ called' = called \cup {"isContextAvailable"}
  /\ UNCHANGED <<inputs, clamped, reclamped, eligibility, available, filtered, otherThanRules>>

CallClampContext ==
  /\ clamped' = clampContext(desired, me, opts)
  /\ called' = called \cup {"clampContext"}
  /\ UNCHANGED <<inputs, availRet, reclamped, eligibility, available, filtered, otherThanRules>>

\* clamp applied to its own result, as every screen does on its next focus.
CallClampContextAgain ==
  /\ "clampContext" \in called
  /\ reclamped' = clampContext(clamped, me, opts)
  /\ called' = called \cup {"clampContextAgain"}
  /\ UNCHANGED <<inputs, availRet, clamped, eligibility, available, filtered, otherThanRules>>

CallGetContextEligibility ==
  /\ eligibility' = getContextEligibility(me, opts)
  /\ called' = called \cup {"getContextEligibility"}
  /\ UNCHANGED <<inputs, availRet, clamped, reclamped, available, filtered, otherThanRules>>

useContextGate ==
  /\ eligibility' = getContextEligibility(me, opts)
  /\ available' = getAvailableContexts(eligibility')
  /\ called' = called \cup {"getContextEligibility", "useContextGate"}
  /\ UNCHANGED <<inputs, availRet, clamped, reclamped, filtered, otherThanRules>>

CallGetAvailableContexts(eligIn) ==
  /\ filtered' = [arg |-> eligIn, ret |-> getAvailableContexts(eligIn)]
  /\ called' = called \cup {"getAvailableContexts"}
  /\ UNCHANGED <<inputs, availRet, clamped, reclamped, eligibility, available, otherThanRules>>

NextRules ==
  \/ \E scope \in ContextScope : CallIsContextAvailable(scope)
  \/ CallClampContext
  \/ CallClampContextAgain
  \/ CallGetContextEligibility
  \/ useContextGate
  \/ \E eligIn \in ContextEligibility : CallGetAvailableContexts(eligIn)

(***************************************************************************)
(* Context storage (src/storage/appContext.ts): the record kept under KEY  *)
(* in AsyncStorage, and the calls of getAppContext and setAppContext.      *)
(*                                                                         *)
(* A stored item is the string AsyncStorage holds, encoded by what         *)
(* JSON.parse makes of it: no item (getItem gives null), the empty string, *)
(* a string that does not parse, the string "null", or an object with the  *)
(* properties segment and currentUserId (UNDEF: the property is missing).  *)
(* A storage call takes effect when it is issued; the code after its await *)
(* runs in a later step, so calls of different handlers interleave at the  *)
(* awaits.  AsyncStorage promises may reject.                              *)
(***************************************************************************)

\* Number of concurrent getAppContext / setAppContext calls.
MaxCalls == 3

\* DEFAULTS
DEFAULTS == [segment |-> "individual", currentUserId |-> "head"]

NoRecord == [segment |-> NONE, currentUserId |-> NONE]

\* Values a normalizer is called with: the current scopes, the legacy
\* spellings, and unknown input.
RawSegments ==
  {UNDEF, NULL, "", "individual", "family", "workplace", "Individual", "Family",
   "Workplace", "you", "self", "corporate", "insurance", "Insurance", "team"}

\* Values found in an item written by an earlier version of the app.
StoredSegments == {UNDEF, NULL, "family", "Family", "corporate", "team"}
StoredUserIds == {UNDEF, NULL, "", "spouse"}

\* Arguments of setAppContext: AppContextState.
SavedUserIds == {"", "spouse"}
AppContextState == [segment : ContextScope, currentUserId : SavedUserIds]

NoItem == [kind |-> "null", segment |-> UNDEF, currentUserId |-> UNDEF]

StoredItems ==
  {[kind |-> k, segment |-> UNDEF, currentUserId |-> UNDEF] :
     k \in {"null", "empty", "garbage", "jsonnull"}}
  \cup [kind : {"object"}, segment : StoredSegments, currentUserId : StoredUserIds]

\* JSON.stringify of an object with the two properties: an undefined
\* property is left out, every other value is written as it is.
JSONstringify(obj) ==
  [kind |-> "object", segment |-> obj.segment, currentUserId |-> obj.currentUserId]

\* JSON.parse: throws on a string that is no JSON text.
JSONparseThrows(item) == item.kind \in {"empty", "garbage"}

\* Reading a property of the parsed value throws when the value is null.
PropertyReadThrows(item) == item.kind = "jsonnull"

\* a ?? b
Nullish(a, b) == IF a \in {UNDEF, NULL} THEN b ELSE a

\* a || b
OrElse(a, b) == IF Truthy(a) THEN a ELSE b

\* normalizeSegment of app/(tabs)/profile.tsx
normalizeSegmentProfile(seg) ==
  CASE seg \in {"individual", "family", "workplace"} -> seg
    [] seg \in {"you", "self"} -> "individual"
    [] seg = "corporate" -> "workplace"
    [] seg = "insurance" -> "individual"
    [] OTHER -> "individual"

\* normalizeSegment of src/storage/appContext.ts
normalizeSegment(seg) ==
  CASE seg \in {"individual", "family", "workplace"} -> seg
    [] seg = "Individual" -> "individual"
    [] seg = "Family" -> "family"
    [] seg = "Workplace" -> "workplace"
    [] seg \in {"you", "self"} -> "individual"
    [] seg = "corporate" -> "workplace"
    [] seg = "insurance" -> "individual"
    [] OTHER -> "individual"

\* Variants of getAppContextAfterRead with one slip each: no try/catch around
\* the parse, the migrated record written back, || in place of ??, and the
\* default returned without the setItem.
getAppContextAfterReadNoCatch(item) ==
  IF item.kind # "null" /\ (JSONparseThrows(item) \/ PropertyReadThrows(item))
    THEN [outcome |-> "throw", value |-> NoRecord]
  ELSE IF item.kind = "object"
    THEN [outcome |-> "return",
          value |-> [segment |-> normalizeSegment(Nullish(item.segment, DEFAULTS.segment)),
                     currentUserId |-> Nullish(item.currentUserId, DEFAULTS.currentUserId)]]
  ELSE [outcome |-> "backfill", value |-> DEFAULTS]

getAppContextAfterReadMigrates(item) ==
  IF item.kind = "object"
    THEN LET v == [segment |-> normalizeSegment(Nullish(item.segment, DEFAULTS.segment)),
                   currentUserId |-> Nullish(item.currentUserId, DEFAULTS.currentUserId)]
         IN IF v.segment = item.segment THEN [outcome |-> "return", value |-> v]
            ELSE [outcome |-> "backfill", value |-> v]
  ELSE [outcome |-> "backfill", value |-> DEFAULTS]

getAppContextAfterReadOrElse(item) ==
  IF item.kind = "object"
    THEN [outcome |-> "return",
          value |-> [segment |-> normalizeSegment(OrElse(item.segment, DEFAULTS.segment)),
                     currentUserId |-> OrElse(item.currentUserId, DEFAULTS.currentUserId)]]
  ELSE [outcome |-> "backfill", value |-> DEFAULTS]

getAppContextAfterReadNoBackfill(item) ==
  IF item.kind = "object"
    THEN [outcome |-> "return",
          value |-> [segment |-> normalizeSegment(Nullish(item.segment, DEFAULTS.segment)),
                     currentUserId |-> Nullish(item.currentUserId, DEFAULTS.currentUserId)]]
  ELSE [outcome |-> "return", value |-> DEFAULTS]

\* getAppContext from the resolution of getItem to its return or to the
\* setItem of DEFAULTS: a truthy raw string that parses to an object is
\* returned normalized; a failure inside the try block is caught; every other
\* item is backfilled.
getAppContextAfterRead(item) ==
  IF item.kind = "object"
    THEN [outcome |-> "return",
          value |-> [segment |-> normalizeSegment(Nullish(item.segment, DEFAULTS.segment)),
                     currentUserId |-> Nullish(item.currentUserId, DEFAULTS.currentUserId)]]
  ELSE [outcome |-> "backfill", value |-> DEFAULTS]

\* Variant of the write of setAppContext: merged into the stored object.
setAppContextItemMerged(stored, next) ==
  IF stored.kind = "object" /\ stored.currentUserId # UNDEF
    THEN [kind |-> "object", segment |-> next.segment, currentUserId |-> stored.currentUserId]
  ELSE JSONstringify(next)

\* The item setAppContext(next) leaves under KEY.
setAppContextItem(stored, next) == JSONstringify(next)


Calls == 1..MaxCalls

IdleCall ==
  [fn |-> "idle", pc |-> "idle", arg |-> NoRecord, rawRead |-> NoItem, readAt |-> 0,
   wroteAt |-> 0, status |-> "none", error |-> "none", ret |-> NoRecord]

InitStoreIdle ==
  /\ ctxItem = NoItem
  /\ calls = [c \in Calls |-> IdleCall]
  /\ writeLog = <<>>

InitStore ==
  /\ ctxItem \in StoredItems
  /\ calls = [c \in Calls |-> IdleCall]
  /\ writeLog = <<>>

\* The calls are numbered in the order they are made.
NextToCall(c) == calls[c].fn = "idle" /\ \A d \in Calls : d < c => calls[d].fn # "idle"

\* getAppContext is called: AsyncStorage.getItem(KEY) is issued and reads the item.
GetAppContextCall(c) ==
  /\ NextToCall(c)
  /\ calls' = [calls EXCEPT ![c] =
       [@ EXCEPT !.fn = "get", !.pc = "getItem", !.rawRead = ctxItem, !.readAt = Len(writeLog)]]
  /\ UNCHANGED <<ctxItem, writeLog, otherThanStore>>

\* getItem rejects: the await at line 50 throws out of getAppContext.
GetItemRejects(c) ==
  /\ calls[c].pc = "getItem"
  /\ calls' = [calls EXCEPT ![c] =
       [@ EXCEPT !.pc = "done", !.status = "raised", !.error = "getItem"]]
  /\ UNCHANGED <<ctxItem, writeLog, otherThanStore>>

\* getItem resolves: lines 51-59, then the return or the setItem of line 61.
GetItemResolves(c) ==
  /\ calls[c].pc = "getItem"
  /\ LET r == getAppContextAfterRead(calls[c].rawRead) IN
       CASE r.outcome = "return" ->
              /\ calls' = [calls EXCEPT ![c] =
                   [@ EXCEPT !.pc = "done", !.status = "returned", !.ret = r.value]]
              /\ UNCHANGED <<ctxItem, writeLog>>
         [] r.outcome = "throw" ->
              /\ calls' = [calls EXCEPT ![c] =
                   [@ EXCEPT !.pc = "done", !.status = "raised", !.error = "parse"]]
              /\ UNCHANGED <<ctxItem, writeLog>>
         [] r.outcome = "backfill" ->
              /\ ctxItem' = JSONstringify(r.value)
              /\ writeLog' = Append(writeLog, [by |-> c, kind |-> "backfill"])
              /\ calls' = [calls EXCEPT ![c] =
                   [@ EXCEPT !.pc = "setItem", !.wroteAt = Len(writeLog) + 1, !.ret = r.value]]
  /\ UNCHANGED otherThanStore

\* getItem resolves, and the setItem of line 61 rejects without writing:
\* the await throws out of getAppContext.
GetItemResolvesBackfillRejects(c) ==
  /\ calls[c].pc = "getItem"
  /\ getAppContextAfterRead(calls[c].rawRead).outcome = "backfill"
  /\ calls' = [calls EXCEPT ![c] =
       [@ EXCEPT !.pc = "done", !.status = "raised", !.error = "setItem"]]
  /\ UNCHANGED <<ctxItem, writeLog, otherThanStore>>

\* setAppContext(next) is called: AsyncStorage.setItem(KEY, JSON.stringify(next)).
SetAppContextCall(c, next) ==
  /\ NextToCall(c)
  /\ ctxItem' = setAppContextItem(ctxItem, next)
  /\ writeLog' = Append(writeLog, [by |-> c, kind |-> "set"])
  /\ calls' = [calls EXCEPT ![c] =
       [@ EXCEPT !.fn = "set", !.pc = "setItem", !.arg = next, !.wroteAt = Len(writeLog) + 1]]
  /\ UNCHANGED otherThanStore

\* setAppContext(next) is called and setItem rejects without writing.
SetAppContextCallRejects(c, next) ==
  /\ NextToCall(c)
  /\ calls' = [calls EXCEPT ![c] =
       [@ EXCEPT !.fn = "set", !.pc = "done", !.arg = next, !.status = "raised",
                 !.error = "setItem"]]
  /\ UNCHANGED <<ctxItem, writeLog, otherThanStore>>

\* The setItem of either function resolves and the function returns.
SetItemResolves(c) ==
  /\ calls[c].pc = "setItem"
  /\ calls' = [calls EXCEPT ![c] = [@ EXCEPT !.pc = "done", !.status = "returned"]]
  /\ UNCHANGED <<ctxItem, writeLog, otherThanStore>>

NextStore ==
  \/ \E c \in Calls : GetAppContextCall(c)
  \/ \E c \in Calls : GetItemRejects(c)
  \/ \E c \in Calls : GetItemResolves(c)
  \/ \E c \in Calls, next \in AppContextState : SetAppContextCall(c, next)
  \/ \E c \in Calls : GetItemResolvesBackfillRejects(c)
  \/ \E c \in Calls, next \in AppContextState : SetAppContextCallRejects(c, next)
  \/ \E c \in Calls : SetItemResolves(c)

InitNormalizeIdle ==
  /\ normSeg = UNDEF
  /\ normRet = NONE
  /\ normProfileRet = NONE
  /\ normChainRet = NONE

InitNormalize ==
  /\ normSeg \in RawSegments
  /\ normRet = NONE
  /\ normProfileRet = NONE
  /\ normChainRet = NONE

\* normalizeSegment(seg), appContext.ts
CallNormalizeSegment ==
  /\ normRet' = normalizeSegment(normSeg)
  /\ UNCHANGED <<normSeg, normProfileRet, normChainRet, otherThanNormalize>>

\* normalizeSegment(seg), profile.tsx
CallNormalizeSegmentProfile ==
  /\ normProfileRet' = normalizeSegmentProfile(normSeg)
  /\ UNCHANGED <<normSeg, normRet, normChainRet, otherThanNormalize>>

\* profile.tsx line 166: normalizeSegment((ctx as any).segment), ctx being what
\* getAppContext returns for an item whose segment is seg.
CallNormalizeSegmentOfContext ==
  /\ normChainRet' =
       normalizeSegmentProfile(
         getAppContextAfterRead([kind |-> "object", segment |-> normSeg,
                                 currentUserId |-> "head"]).value.segment)
  /\ UNCHANGED <<normSeg, normRet, normProfileRet, otherThanNormalize>>

NextNormalize ==
  \/ CallNormalizeSegment
  \/ CallNormalizeSegmentProfile
  \/ CallNormalizeSegmentOfContext

(***************************************************************************)
(* The screens and the stores they share.                                  *)
(*                                                                         *)
(* A handler runs to its first await when the user acts, and from one      *)
(* await to the next in each later step; an AsyncStorage call takes effect *)
(* when it is issued.  The state updates of one step are rendered together *)
(* at its end, and the useMemo clamp of GroupsScreen runs in that render.  *)
(* The tab screens (Groups, Profile) stay mounted and keep their state     *)
(* while another screen is in focus; the stack screens (context gate, join *)
(* family, create family) are mounted anew each time they are opened.      *)
(* The AsyncStorage calls of the screens resolve.                          *)
(***************************************************************************)

\* Number of user actions (navigation, taps, text input) in one run.
MaxTaps == 3

\* Number of Family groups the groups store holds at most.
MaxGroups == 1

\* The users the screens can make current: the ids of the DEV buttons.
UserIds == {"head", "spouse"}

\* A UserProfile of the users store, or the id missing from the list.
NoUser == [present |-> FALSE, familyId |-> UNDEF, corporateId |-> UNDEF]

\* The lists an earlier run left in the users store: no user, or the head and
\* the spouse with the memberships they then had.
UserProfileOf(familyId, corporateId) ==
  [present |-> TRUE, familyId |-> familyId, corporateId |-> corporateId]

StoredUsers ==
  {[u \in UserIds |-> NoUser]}
  \cup {[u \in UserIds |-> IF u = "head" THEN h ELSE s] :
          h \in {UserProfileOf(UNDEF, UNDEF), UserProfileOf(UNDEF, "CORP-X"),
                 UserProfileOf("FAM-1", "CORP-X")},
          s \in {UserProfileOf(UNDEF, UNDEF), UserProfileOf("FAM-1", UNDEF)}}

NoUsers == [u \in UserIds |-> NoUser]

\* seedDemoHousehold(familyId): the head and the spouse of the demo list.
seedDemoHousehold(familyId) ==
  [u \in UserIds |->
     [present |-> TRUE, familyId |-> familyId,
      corporateId |-> IF u = "head" THEN "CORP-X" ELSE "CORP-Y"]]

\* users.find((u) => u.id === id) ?? null, as the actor the rules are given.
FindUser(users, id) ==
  IF id \in UserIds /\ users[id].present
    THEN [kind |-> "object", id |-> id, familyId |-> users[id].familyId,
          corporateId |-> users[id].corporateId]
  ELSE [kind |-> NULL, id |-> UNDEF, familyId |-> UNDEF, corporateId |-> UNDEF]

\* { hasFamilyGroup }
Opts(hasFamilyGroup) ==
  [kind |-> "object", hasFamilyGroup |-> IF hasFamilyGroup THEN "true" ELSE "false"]

\* clampContext called with two arguments.
NoOpts == [kind |-> UNDEF, hasFamilyGroup |-> UNDEF]

\* String.prototype.trim on the text of the corporate ID field.
Trim(s) == IF s = " " THEN "" ELSE s

\* Text the user types into the corporate ID field.
TypedCorporateIds == {" ", "CORP-X"}

\* Codes the user enters on the join family screen.
FamilyCodes == {"FAM-1", "fam-abc123"}

\* parseFamilyId(code): trimmed, upper-cased, a leading "FAM-" cut off.
parseFamilyId(code) ==
  CASE code = "FAM-1" -> "1"
    [] code = "fam-abc123" -> "ABC123"
    [] OTHER -> ""

\* familyId.length of the parsed codes.
StringLength(s) ==
  CASE s = "1" -> 1
    [] s = "ABC123" -> 6
    [] OTHER -> 0

Range(q) == {q[i] : i \in 1..Len(q)}

\* The locals of a handler between two awaits.
IdleHandler ==
  [pc |-> "idle", alive |-> FALSE, raw |-> NoItem, ctx |-> NoRecord, us |-> NoUsers,
   list |-> NoUsers, gs |-> 0, id |-> NONE, seg |-> NONE, prof |-> NoUser]

\* The cleanup of a focus effect: alive = false.
Blur(h) == IF h.pc = "idle" THEN h ELSE [h EXCEPT !.alive = FALSE]

\* What getAppContext returns for the item its getItem has read.
ContextRead(h) == getAppContextAfterRead(h.raw).value

\* The item after the backfill of getAppContext, if it makes one.
AfterBackfill(h, item) ==
  IF getAppContextAfterRead(h.raw).outcome = "backfill" THEN JSONstringify(DEFAULTS) ELSE item

\* ---- ContextGate (app/context-gate.tsx)

GateFresh(force) ==
  [force |-> force, loading |-> TRUE, users |-> NoUsers, currentUserId |-> "head",
   hasFamilyGroup |-> FALSE]

\* me and options of the gate
GateMe(S) == FindUser(S.users, S.currentUserId)
GateOptions(S) ==
  getAvailableContexts(getContextEligibility(GateMe(S), Opts(S.hasFamilyGroup)))

\* ---- GroupsScreen (app/(tabs)/groups.tsx)

GroupsFresh ==
  [segment |-> "individual", users |-> NoUsers, savedGroups |-> 0, currentUserId |-> "head"]

GroupsMe(S) == FindUser(S.users, S.currentUserId)
GroupsHasFamilyGroup(S) == S.savedGroups > 0
\* Variant of SEGMENTS: every scope offered.
SEGMENTSUnfiltered(S) == CONTEXT_ORDER
SEGMENTS(S) ==
  getAvailableContexts(getContextEligibility(GroupsMe(S), Opts(GroupsHasFamilyGroup(S))))

\* The render of GroupsScreen with state S: the useMemo clamp sets the segment
\* and calls setAppContext when the segment is not available for me.
GroupsRender(S) ==
  LET m == GroupsMe(S)
      c == IF m.kind = "object"
             THEN clampContext(S.segment, m, Opts(GroupsHasFamilyGroup(S)))
           ELSE S.segment
  IN [state |-> [S EXCEPT !.segment = c], write |-> c # S.segment,
      value |-> [segment |-> c, currentUserId |-> S.currentUserId]]

\* ---- ProfileScreen (app/(tabs)/profile.tsx)

ProfileFresh == [currentUserId |-> "head", users |-> NoUsers, corporateId |-> ""]

\* setCorporateId(u?.corporateId ?? "")
CorporateIdField(us, id) == Nullish(OptCorporateId(FindUser(us, id)), "")

\* ---- JoinFamilyScreen (app/groups/join-family.tsx)

JoinFresh == [currentUserId |-> "head"]

\* ---- Init

AppContextItems ==
  {NoItem} \cup [kind : {"object"}, segment : ContextScope, currentUserId : UserIds]

InitAppScreens ==
  /\ screen = "index"
  /\ taps = 0
  /\ gateS = GateFresh(FALSE)
  /\ gateLoad = IdleHandler
  /\ gateChoose = IdleHandler
  /\ grpS = GroupsFresh
  /\ grpLoad = IdleHandler
  /\ grpSeed = IdleHandler
  /\ profS = ProfileFresh
  /\ profLoad = IdleHandler
  /\ profSave = IdleHandler
  /\ profSetUser = IdleHandler
  /\ joinS = JoinFresh
  /\ joinLoad = IdleHandler
  /\ joinOp = IdleHandler
  /\ createOp = IdleHandler

\* The app is not opened: the rules, the context storage and the normalizers
\* are called on their own, and no screen or store of the app holds a value.
NotOpened == "not-opened"

InitAppIdle ==
  /\ appCtx = NotOpened
  /\ usersItem = NotOpened
  /\ groupsCount = NotOpened
  /\ screen = NotOpened
  /\ taps = NotOpened
  /\ gateS = NotOpened
  /\ gateLoad = NotOpened
  /\ gateChoose = NotOpened
  /\ grpS = NotOpened
  /\ grpLoad = NotOpened
  /\ grpSeed = NotOpened
  /\ profS = NotOpened
  /\ profLoad = NotOpened
  /\ profSave = NotOpened
  /\ profSetUser = NotOpened
  /\ joinS = NotOpened
  /\ joinLoad = NotOpened
  /\ joinOp = NotOpened
  /\ createOp = NotOpened

\* The app is opened on a device whose stores hold what an earlier run left.
InitApp ==
  /\ appCtx \in AppContextItems
  /\ usersItem \in StoredUsers
  /\ groupsCount \in 0..MaxGroups
  /\ InitAppScreens

gateVars == <<gateS, gateLoad, gateChoose>>
grpVars == <<grpS, grpLoad, grpSeed>>
profVars == <<profS, profLoad, profSave, profSetUser>>
joinVars == <<joinS, joinLoad, joinOp>>
ctxStore == <<appCtx>>

\* One more user action.
Tap == taps < MaxTaps /\ taps' = taps + 1

\* A load starts: getAppContext is called and its getItem reads the item.
StartLoad(item) == [IdleHandler EXCEPT !.pc = "ctx", !.alive = TRUE, !.raw = item]

\* app/index.tsx: router.replace("/context-gate")
IndexRedirect ==
  /\ screen = "index"
  /\ screen' = "gate"
  /\ gateS' = GateFresh(FALSE)
  /\ gateLoad' = StartLoad(appCtx)
  /\ UNCHANGED <<ctxStore, usersItem, groupsCount, taps, gateChoose, grpVars, profVars,
                 joinVars, createOp, otherThanApp>>

\* ---- ContextGate: the load of the useEffect (lines 60-103)

\* getAppContext returns, or makes its backfill; then listUsers is called.
GateLoadCtx ==
  /\ gateLoad.pc = "ctx"
  /\ LET r == getAppContextAfterRead(gateLoad.raw) IN
       IF r.outcome = "return"
         THEN /\ gateLoad' = [gateLoad EXCEPT !.pc = "users", !.ctx = r.value, !.us = usersItem]
              /\ UNCHANGED ctxStore
       ELSE /\ appCtx' = JSONstringify(r.value)
            /\ gateLoad' = [gateLoad EXCEPT !.pc = "backfill", !.ctx = r.value]
  /\ UNCHANGED <<usersItem, groupsCount, screen, taps, gateS, gateChoose, grpVars, profVars,
                 joinVars, createOp, otherThanApp>>

\* The setItem of the backfill resolves; listUsers is called.
GateLoadBackfill ==
  /\ gateLoad.pc = "backfill"
  /\ gateLoad' = [gateLoad EXCEPT !.pc = "users", !.us = usersItem]
  /\ UNCHANGED <<ctxStore, usersItem, groupsCount, screen, taps, gateS, gateChoose, grpVars,
                 profVars, joinVars, createOp, otherThanApp>>

\* listUsers resolves; listGroups is called.
GateLoadUsers ==
  /\ gateLoad.pc = "users"
  /\ gateLoad' = [gateLoad EXCEPT !.pc = "groups", !.gs = groupsCount]
  /\ UNCHANGED <<ctxStore, usersItem, groupsCount, screen, taps, gateS, gateChoose, grpVars,
                 profVars, joinVars, createOp, otherThanApp>>

\* Variant: the clamped scope saved with the currentUserId of the state, which the
\* effect still sees as "head".
GateLoadGroupsSavesStateUser ==
  /\ gateLoad.pc = "groups"
  /\ LET hasFam == gateLoad.gs > 0
         resolvedUserId == Nullish(gateLoad.ctx.currentUserId, "head")
         resolvedMe == FindUser(gateLoad.us, resolvedUserId)
         loaded == [gateS EXCEPT !.users = gateLoad.us, !.currentUserId = resolvedUserId,
                                 !.hasFamilyGroup = hasFam]
         elig == getContextEligibility(resolvedMe, Opts(hasFam))
         saved == Nullish(gateLoad.ctx.segment, "individual")
         nextScope == clampContext(saved, resolvedMe, Opts(hasFam))
     IN IF gateS.force
          THEN /\ gateS' = [loaded EXCEPT !.loading = FALSE]
               /\ gateLoad' = IdleHandler
               /\ UNCHANGED <<ctxStore, screen, grpLoad>>
        ELSE IF elig[saved]
          THEN /\ grpLoad.pc = "idle"
               /\ screen' = "groups"
               /\ grpLoad' = StartLoad(appCtx)
               /\ gateS' = GateFresh(FALSE)
               /\ gateLoad' = IdleHandler
               /\ UNCHANGED ctxStore
        ELSE /\ appCtx' = setAppContextItem(appCtx,
                            [segment |-> nextScope, currentUserId |-> gateS.currentUserId])
             /\ gateS' = loaded
             /\ gateLoad' = [gateLoad EXCEPT !.pc = "save"]
             /\ UNCHANGED <<screen, grpLoad>>
  /\ UNCHANGED <<usersItem, groupsCount, taps, gateChoose, grpS, grpSeed, profVars, joinVars,
                 createOp, otherThanApp>>

\* listGroups resolves: lines 69-100.  A forced gate stops before the clamp; an
\* eligible saved scope goes on to Groups; any other is clamped and saved.
GateLoadGroups ==
  /\ gateLoad.pc = "groups"
  /\ LET hasFam == gateLoad.gs > 0
         resolvedUserId == Nullish(gateLoad.ctx.currentUserId, "head")
         resolvedMe == FindUser(gateLoad.us, resolvedUserId)
         loaded == [gateS EXCEPT !.users = gateLoad.us, !.currentUserId = resolvedUserId,
                                 !.hasFamilyGroup = hasFam]
         elig == getContextEligibility(resolvedMe, Opts(hasFam))
         saved == Nullish(gateLoad.ctx.segment, "individual")
         nextScope == clampContext(saved, resolvedMe, Opts(hasFam))
     IN IF gateS.force
          THEN /\ gateS' = [loaded EXCEPT !.loading = FALSE]
               /\ gateLoad' = IdleHandler
               /\ UNCHANGED <<ctxStore, screen, grpLoad>>
        ELSE IF elig[saved]
          THEN /\ grpLoad.pc = "idle"
               /\ screen' = "groups"
               /\ grpLoad' = StartLoad(appCtx)
               /\ gateS' = GateFresh(FALSE)
               /\ gateLoad' = IdleHandler
               /\ UNCHANGED ctxStore
        ELSE /\ appCtx' = setAppContextItem(appCtx,
                            [segment |-> nextScope, currentUserId |-> resolvedUserId])
             /\ gateS' = loaded
             /\ gateLoad' = [gateLoad EXCEPT !.pc = "save"]
             /\ UNCHANGED <<screen, grpLoad>>
  /\ UNCHANGED <<usersItem, groupsCount, taps, gateChoose, grpS, grpSeed, profVars, joinVars,
                 createOp, otherThanApp>>

\* The setAppContext of line 97 resolves: setLoading(false).
GateLoadSave ==
  /\ gateLoad.pc = "save"
  /\ gateS' = [gateS EXCEPT !.loading = FALSE]
  /\ gateLoad' = IdleHandler
  /\ UNCHANGED <<ctxStore, usersItem, groupsCount, screen, taps, gateChoose, grpVars, profVars,
                 joinVars, createOp, otherThanApp>>

\* choose(scope), lines 105-115: one of the options is tapped.
GateChoose(scope) ==
  /\ screen = "gate"
  /\ ~gateS.loading
  /\ gateChoose.pc = "idle"
  /\ scope \in Range(GateOptions(gateS))
  /\ Tap
  /\ appCtx' = setAppContextItem(appCtx,
                 [segment |-> scope, currentUserId |-> gateS.currentUserId])
  /\ gateChoose' = [IdleHandler EXCEPT !.pc = "save", !.seg = scope]
  /\ UNCHANGED <<usersItem, groupsCount, screen, gateS, gateLoad, grpVars, profVars, joinVars,
                 createOp, otherThanApp>>

\* The setAppContext of choose resolves: router.replace("/(tabs)/groups").
GateChooseSave ==
  /\ gateChoose.pc = "save"
  /\ grpLoad.pc = "idle"
  /\ screen' = "groups"
  /\ grpLoad' = StartLoad(appCtx)
  /\ gateS' = GateFresh(FALSE)
  /\ gateChoose' = IdleHandler
  /\ UNCHANGED <<ctxStore, usersItem, groupsCount, taps, gateLoad, grpS, grpSeed, profVars,
                 joinVars, createOp, otherThanApp>>

\* "Edit membership IDs": router.replace("/(tabs)/profile").
GateEditIds ==
  /\ screen = "gate"
  /\ ~gateS.loading
  /\ gateChoose.pc = "idle"
  /\ profLoad.pc = "idle"
  /\ Tap
  /\ screen' = "profile"
  /\ profLoad' = StartLoad(appCtx)
  /\ gateS' = GateFresh(FALSE)
  /\ UNCHANGED <<ctxStore, usersItem, groupsCount, gateLoad, gateChoose, grpVars, profS,
                 profSave, profSetUser, joinVars, createOp, otherThanApp>>

\* ---- GroupsScreen: the load of the useFocusEffect (lines 480-514)

\* The state updates of a step are rendered: grpS, and the write of the useMemo
\* clamp after the write the step made itself.
GroupsCommit(S, item) ==
  LET R == GroupsRender(S) IN
    /\ grpS' = R.state
    /\ appCtx' = IF R.write THEN setAppContextItem(item, R.value) ELSE item

\* getAppContext returns; listGroups is called.
GroupsLoadCtx ==
  /\ grpLoad.pc = "ctx"
  /\ grpLoad' = [grpLoad EXCEPT !.pc = "groups", !.ctx = ContextRead(grpLoad),
                                !.gs = groupsCount]
  /\ appCtx' = AfterBackfill(grpLoad, appCtx)
  /\ UNCHANGED <<usersItem, groupsCount, screen, taps, gateVars, grpS, grpSeed, profVars,
                 joinVars, createOp, otherThanApp>>

\* listGroups resolves; listUsers is called.
GroupsLoadGroups ==
  /\ grpLoad.pc = "groups"
  /\ grpLoad' = [grpLoad EXCEPT !.pc = "users", !.us = usersItem]
  /\ UNCHANGED <<ctxStore, usersItem, groupsCount, screen, taps, gateVars, grpS, grpSeed,
                 profVars, joinVars, createOp, otherThanApp>>

\* listUsers resolves: lines 487-510.  The clamped scope is saved if it differs
\* from the saved one; else the state is set.
GroupsLoadUsers ==
  /\ grpLoad.pc = "users"
  /\ LET hasFamilyGroup == grpLoad.gs > 0
         resolvedUserId == Nullish(grpLoad.ctx.currentUserId, "head")
         resolvedMe == FindUser(grpLoad.us, resolvedUserId)
         desiredScope == Nullish(grpLoad.ctx.segment, "individual")
         clampedScope == clampContext(desiredScope, resolvedMe, Opts(hasFamilyGroup))
     IN IF ~grpLoad.alive
          THEN /\ grpLoad' = IdleHandler
               /\ UNCHANGED <<ctxStore, grpS>>
        ELSE IF clampedScope # desiredScope
          THEN /\ appCtx' = setAppContextItem(appCtx,
                              [segment |-> clampedScope, currentUserId |-> resolvedUserId])
               /\ grpLoad' = [grpLoad EXCEPT !.pc = "save", !.seg = clampedScope,
                                             !.id = resolvedUserId]
               /\ UNCHANGED grpS
        ELSE /\ GroupsCommit([segment |-> clampedScope, users |-> grpLoad.us,
                              savedGroups |-> grpLoad.gs, currentUserId |-> resolvedUserId],
                             appCtx)
             /\ grpLoad' = IdleHandler
  /\ UNCHANGED <<usersItem, groupsCount, screen, taps, gateVars, grpSeed, profVars, joinVars,
                 createOp, otherThanApp>>

\* The setAppContext of line 500 resolves: lines 505-508 set the state.
GroupsLoadSave ==
  /\ grpLoad.pc = "save"
  /\ GroupsCommit([segment |-> grpLoad.seg, users |-> grpLoad.us,
                   savedGroups |-> grpLoad.gs, currentUserId |-> grpLoad.id],
                  appCtx)
  /\ grpLoad' = IdleHandler
  /\ UNCHANGED <<usersItem, groupsCount, screen, taps, gateVars, grpSeed, profVars, joinVars,
                 createOp, otherThanApp>>

\* onChangeSegment(next), lines 571-577: one of SEGMENTS is tapped.
GroupsOnChangeSegment(next) ==
  /\ screen = "groups"
  /\ next \in Range(SEGMENTS(grpS))
  /\ Tap
  /\ GroupsCommit([grpS EXCEPT !.segment = next],
                  setAppContextItem(appCtx,
                    [segment |-> next, currentUserId |-> grpS.currentUserId]))
  /\ UNCHANGED <<usersItem, groupsCount, screen, gateVars, grpLoad, grpSeed, profVars,
                 joinVars, createOp, otherThanApp>>

\* onChangeUser(nextUserId), lines 582-593: a DEV chip is tapped.
GroupsOnChangeUser(nextUserId) ==
  /\ screen = "groups"
  /\ grpS.segment # "workplace"
  /\ Tap
  /\ LET nextMe == FindUser(grpS.users, nextUserId)
         clampedScope == clampContext(grpS.segment, nextMe, Opts(GroupsHasFamilyGroup(grpS)))
     IN GroupsCommit([grpS EXCEPT !.currentUserId = nextUserId, !.segment = clampedScope],
                     setAppContextItem(appCtx,
                       [segment |-> clampedScope, currentUserId |-> nextUserId]))
  /\ UNCHANGED <<usersItem, groupsCount, screen, gateVars, grpLoad, grpSeed, profVars,
                 joinVars, createOp, otherThanApp>>

\* devSeed, lines 611-617: "Seed demo" is tapped; saveUsers writes the demo list.
\* The handler keeps the users, segment and groups of the render it was made in.
GroupsDevSeed ==
  /\ screen = "groups"
  /\ grpS.segment # "workplace"
  /\ \A u \in UserIds : ~grpS.users[u].present
  /\ grpSeed.pc = "idle"
  /\ Tap
  /\ usersItem' = seedDemoHousehold(IF grpS.savedGroups > 0 THEN "family-1" ELSE "FAM-1")
  /\ grpSeed' = [IdleHandler EXCEPT !.pc = "seeded", !.us = grpS.users,
                                    !.seg = grpS.segment, !.gs = grpS.savedGroups]
  /\ UNCHANGED <<ctxStore, groupsCount, screen, gateVars, grpS, grpLoad, profVars, joinVars,
                 createOp, otherThanApp>>

\* seedDemoHousehold resolves; listUsers is called.
GroupsDevSeedList ==
  /\ grpSeed.pc = "seeded"
  /\ grpSeed' = [grpSeed EXCEPT !.pc = "listed", !.list = usersItem]
  /\ UNCHANGED <<ctxStore, usersItem, groupsCount, screen, taps, gateVars, grpS, grpLoad,
                 profVars, joinVars, createOp, otherThanApp>>

\* listUsers resolves: setUsers(us), then onChangeUser("head") of the render
\* the handler was made in.
GroupsDevSeedUser ==
  /\ grpSeed.pc = "listed"
  /\ LET nextMe == FindUser(grpSeed.us, "head")
         clampedScope == clampContext(grpSeed.seg, nextMe, Opts(grpSeed.gs > 0))
     IN GroupsCommit([grpS EXCEPT !.users = grpSeed.list, !.currentUserId = "head",
                                  !.segment = clampedScope],
                     setAppContextItem(appCtx,
                       [segment |-> clampedScope, currentUserId |-> "head"]))
  /\ grpSeed' = IdleHandler
  /\ UNCHANGED <<usersItem, groupsCount, screen, taps, gateVars, grpLoad, profVars, joinVars,
                 createOp, otherThanApp>>

\* The Profile tab is tapped.
GroupsToProfile ==
  /\ screen = "groups"
  /\ profLoad.pc = "idle"
  /\ Tap
  /\ screen' = "profile"
  /\ grpLoad' = Blur(grpLoad)
  /\ profLoad' = StartLoad(appCtx)
  /\ UNCHANGED <<ctxStore, usersItem, groupsCount, gateVars, grpS, grpSeed, profS, profSave,
                 profSetUser, joinVars, createOp, otherThanApp>>

\* "Create family" is tapped: shown when segment is family and there is no Family group.
GroupsToCreateFamily ==
  /\ screen = "groups"
  /\ grpS.segment = "family" /\ grpS.savedGroups = 0
  /\ Tap
  /\ screen' = "create"
  /\ grpLoad' = Blur(grpLoad)
  /\ UNCHANGED <<ctxStore, usersItem, groupsCount, gateVars, grpS, grpSeed, profVars, joinVars,
                 createOp, otherThanApp>>

\* "Join family" is tapped: shown when segment is family and there is a Family group.
GroupsToJoinFamily ==
  /\ screen = "groups"
  /\ grpS.segment = "family" /\ grpS.savedGroups > 0
  /\ joinLoad.pc = "idle"
  /\ Tap
  /\ screen' = "join"
  /\ grpLoad' = Blur(grpLoad)
  /\ joinS' = JoinFresh
  /\ joinLoad' = StartLoad(appCtx)
  /\ UNCHANGED <<ctxStore, usersItem, groupsCount, gateVars, grpS, grpSeed, profVars, joinOp,
                 createOp, otherThanApp>>

\* "Switch context" is tapped: router.push of the gate with force "1".
GroupsToGate ==
  /\ screen = "groups"
  /\ Tap
  /\ screen' = "gate"
  /\ grpLoad' = Blur(grpLoad)
  /\ gateS' = GateFresh(TRUE)
  /\ gateLoad' = StartLoad(appCtx)
  /\ UNCHANGED <<ctxStore, usersItem, groupsCount, gateChoose, grpS, grpSeed, profVars,
                 joinVars, createOp, otherThanApp>>

\* ---- ProfileScreen: the load of the useFocusEffect (lines 126-145)

\* getAppContext returns; listUsers is called.
ProfileLoadCtx ==
  /\ profLoad.pc = "ctx"
  /\ profLoad' = [profLoad EXCEPT !.pc = "users", !.ctx = ContextRead(profLoad),
                                  !.us = usersItem]
  /\ appCtx' = AfterBackfill(profLoad, appCtx)
  /\ UNCHANGED <<usersItem, groupsCount, screen, taps, gateVars, grpVars, profS, profSave,
                 profSetUser, joinVars, createOp, otherThanApp>>

\* listUsers resolves: the state is set unless the screen lost focus.
ProfileLoadUsers ==
  /\ profLoad.pc = "users"
  /\ profS' = IF profLoad.alive
                THEN [currentUserId |-> profLoad.ctx.currentUserId, users |-> profLoad.us,
                      corporateId |-> CorporateIdField(profLoad.us, profLoad.ctx.currentUserId)]
              ELSE profS
  /\ profLoad' = IdleHandler
  /\ UNCHANGED <<ctxStore, usersItem, groupsCount, screen, taps, gateVars, grpVars, profSave,
                 profSetUser, joinVars, createOp, otherThanApp>>

\* The corporate ID field is edited.
ProfileSetCorporateId(text) ==
  /\ screen = "profile"
  /\ text # profS.corporateId
  /\ Tap
  /\ profS' = [profS EXCEPT !.corporateId = text]
  /\ UNCHANGED <<ctxStore, usersItem, groupsCount, screen, gateVars, grpVars, profLoad,
                 profSave, profSetUser, joinVars, createOp, otherThanApp>>

\* onSave, lines 147-186: "Save" is tapped; upsertUser(next) calls listUsers.
ProfileOnSave ==
  /\ screen = "profile"
  /\ profSave.pc = "idle"
  /\ FindUser(profS.users, profS.currentUserId).kind = "object"
  /\ Tap
  /\ profSave' = [IdleHandler EXCEPT
       !.pc = "upsertRead", !.id = profS.currentUserId, !.list = usersItem,
       !.prof = [profS.users[profS.currentUserId] EXCEPT
                   !.corporateId = Trim(profS.corporateId)]]
  /\ UNCHANGED <<ctxStore, usersItem, groupsCount, screen, gateVars, grpVars, profS, profLoad,
                 profSetUser, joinVars, createOp, otherThanApp>>

\* upsertUser: the list read is written back with next in it.
ProfileOnSaveUpsert ==
  /\ profSave.pc = "upsertRead"
  /\ usersItem' = [profSave.list EXCEPT ![profSave.id] = profSave.prof]
  /\ profSave' = [profSave EXCEPT !.pc = "upsertWrite"]
  /\ UNCHANGED <<ctxStore, groupsCount, screen, taps, gateVars, grpVars, profS, profLoad,
                 profSetUser, joinVars, createOp, otherThanApp>>

\* upsertUser resolves; listUsers is called.
ProfileOnSaveList ==
  /\ profSave.pc = "upsertWrite"
  /\ profSave' = [profSave EXCEPT !.pc = "list", !.us = usersItem]
  /\ UNCHANGED <<ctxStore, usersItem, groupsCount, screen, taps, gateVars, grpVars, profS,
                 profLoad, profSetUser, joinVars, createOp, otherThanApp>>

\* listUsers resolves: setUsers(us); getAppContext is called.
ProfileOnSaveCtx ==
  /\ profSave.pc = "list"
  /\ profS' = [profS EXCEPT !.users = profSave.us]
  /\ profSave' = [profSave EXCEPT !.pc = "ctx", !.raw = appCtx]
  /\ UNCHANGED <<ctxStore, usersItem, groupsCount, screen, taps, gateVars, grpVars, profLoad,
                 profSetUser, joinVars, createOp, otherThanApp>>

\* The clamp of onSave, lines 168-172: clampContext without the options.
ProfileClamp(safeSegment, next) == clampContext(safeSegment, next, NoOpts)

\* getAppContext resolves: lines 166-179.
ProfileOnSaveClamp ==
  /\ profSave.pc = "ctx"
  /\ LET ctx == ContextRead(profSave)
         item == AfterBackfill(profSave, appCtx)
         safeSegment == normalizeSegmentProfile(ctx.segment)
         next == [kind |-> "object", id |-> profSave.id, familyId |-> profSave.prof.familyId,
                  corporateId |-> profSave.prof.corporateId]
         nextSegment == ProfileClamp(safeSegment, next)
     IN IF nextSegment # safeSegment
          THEN /\ appCtx' = setAppContextItem(item, [ctx EXCEPT !.segment = nextSegment])
               /\ profSave' = [profSave EXCEPT !.pc = "save"]
        ELSE /\ appCtx' = item
             /\ profSave' = IdleHandler
  /\ UNCHANGED <<usersItem, groupsCount, screen, taps, gateVars, grpVars, profS, profLoad,
                 profSetUser, joinVars, createOp, otherThanApp>>

\* The setAppContext of onSave resolves.
ProfileOnSaveSaved ==
  /\ profSave.pc = "save"
  /\ profSave' = IdleHandler
  /\ UNCHANGED <<ctxStore, usersItem, groupsCount, screen, taps, gateVars, grpVars, profS,
                 profLoad, profSetUser, joinVars, createOp, otherThanApp>>

\* setActiveUser(id), lines 190-203: a DEV button is tapped.
ProfileSetActiveUser(id) ==
  /\ screen = "profile"
  /\ profSetUser.pc = "idle"
  /\ Tap
  /\ profS' = [profS EXCEPT !.currentUserId = id]
  /\ profSetUser' = [IdleHandler EXCEPT !.pc = "ctx", !.id = id, !.raw = appCtx]
  /\ UNCHANGED <<ctxStore, usersItem, groupsCount, screen, gateVars, grpVars, profLoad,
                 profSave, joinVars, createOp, otherThanApp>>

\* getAppContext resolves: setAppContext({ segment: ctx.segment, currentUserId: id }).
ProfileSetActiveUserWrite ==
  /\ profSetUser.pc = "ctx"
  /\ appCtx' = setAppContextItem(AfterBackfill(profSetUser, appCtx),
                 [segment |-> ContextRead(profSetUser).segment,
                  currentUserId |-> profSetUser.id])
  /\ profSetUser' = [profSetUser EXCEPT !.pc = "write"]
  /\ UNCHANGED <<usersItem, groupsCount, screen, taps, gateVars, grpVars, profS, profLoad,
                 profSave, joinVars, createOp, otherThanApp>>

\* setAppContext resolves; listUsers is called.
ProfileSetActiveUserList ==
  /\ profSetUser.pc = "write"
  /\ profSetUser' = [profSetUser EXCEPT !.pc = "list", !.us = usersItem]
  /\ UNCHANGED <<ctxStore, usersItem, groupsCount, screen, taps, gateVars, grpVars, profS,
                 profLoad, profSave, joinVars, createOp, otherThanApp>>

\* listUsers resolves: the users and the fields are set.
ProfileSetActiveUserDone ==
  /\ profSetUser.pc = "list"
  /\ profS' = [profS EXCEPT !.users = profSetUser.us,
                            !.corporateId = CorporateIdField(profSetUser.us, profSetUser.id)]
  /\ profSetUser' = IdleHandler
  /\ UNCHANGED <<ctxStore, usersItem, groupsCount, screen, taps, gateVars, grpVars, profLoad,
                 profSave, joinVars, createOp, otherThanApp>>

\* The Groups tab is tapped.
ProfileToGroups ==
  /\ screen = "profile"
  /\ grpLoad.pc = "idle"
  /\ Tap
  /\ screen' = "groups"
  /\ profLoad' = Blur(profLoad)
  /\ grpLoad' = StartLoad(appCtx)
  /\ UNCHANGED <<ctxStore, usersItem, groupsCount, gateVars, grpS, grpSeed, profS, profSave,
                 profSetUser, joinVars, createOp, otherThanApp>>

\* ---- JoinFamilyScreen (app/groups/join-family.tsx)

\* getAppContext resolves: setCurrentUserId(ctx.currentUserId).
JoinLoadCtx ==
  /\ joinLoad.pc = "ctx"
  /\ joinS' = IF joinLoad.alive
                THEN [currentUserId |-> ContextRead(joinLoad).currentUserId]
              ELSE joinS
  /\ joinLoad' = IdleHandler
  /\ appCtx' = AfterBackfill(joinLoad, appCtx)
  /\ UNCHANGED <<usersItem, groupsCount, screen, taps, gateVars, grpVars, profVars, joinOp,
                 createOp, otherThanApp>>

\* onJoin, lines 35-55: "Join" is tapped.  A code that is too short is
\* refused; else getUserById calls listUsers.
JoinOnJoin(code) ==
  /\ screen = "join"
  /\ joinOp.pc = "idle"
  /\ Tap
  /\ LET familyId == parseFamilyId(code) IN
       IF ~Truthy(familyId) \/ StringLength(familyId) < 3
         THEN UNCHANGED joinOp
       ELSE joinOp' = [IdleHandler EXCEPT !.pc = "get", !.id = joinS.currentUserId,
                                          !.seg = familyId, !.us = usersItem]
  /\ UNCHANGED <<ctxStore, usersItem, groupsCount, screen, gateVars, grpVars, profVars, joinS,
                 joinLoad, createOp, otherThanApp>>

\* getUserById resolves: without a user the handler stops; else upsertUser
\* calls listUsers.
JoinOnJoinGot ==
  /\ joinOp.pc = "get"
  /\ joinOp' = IF FindUser(joinOp.us, joinOp.id).kind = "object"
                 THEN [joinOp EXCEPT !.pc = "upsertRead", !.list = usersItem,
                                     !.prof = [joinOp.us[joinOp.id] EXCEPT
                                                 !.familyId = joinOp.seg]]
               ELSE IdleHandler
  /\ UNCHANGED <<ctxStore, usersItem, groupsCount, screen, taps, gateVars, grpVars, profVars,
                 joinS, joinLoad, createOp, otherThanApp>>

\* upsertUser: the list read is written back with the joined user in it.
JoinOnJoinUpsert ==
  /\ joinOp.pc = "upsertRead"
  /\ usersItem' = [joinOp.list EXCEPT ![joinOp.id] = joinOp.prof]
  /\ joinOp' = [joinOp EXCEPT !.pc = "upsertWrite"]
  /\ UNCHANGED <<ctxStore, groupsCount, screen, taps, gateVars, grpVars, profVars, joinS,
                 joinLoad, createOp, otherThanApp>>

\* upsertUser resolves: router.back() to Groups.
JoinOnJoinBack ==
  /\ joinOp.pc = "upsertWrite"
  /\ grpLoad.pc = "idle"
  /\ screen' = "groups"
  /\ grpLoad' = StartLoad(appCtx)
  /\ joinOp' = IdleHandler
  /\ joinLoad' = Blur(joinLoad)
  /\ UNCHANGED <<ctxStore, usersItem, groupsCount, taps, gateVars, grpS, grpSeed, profVars,
                 joinS, createOp, otherThanApp>>

\* "Cancel" is tapped: router.back() to Groups.
JoinCancel ==
  /\ screen = "join"
  /\ joinOp.pc = "idle"
  /\ grpLoad.pc = "idle"
  /\ Tap
  /\ screen' = "groups"
  /\ grpLoad' = StartLoad(appCtx)
  /\ joinLoad' = Blur(joinLoad)
  /\ UNCHANGED <<ctxStore, usersItem, groupsCount, gateVars, grpS, grpSeed, profVars, joinS,
                 joinOp, createOp, otherThanApp>>

\* ---- CreateFamilyScreen (app/groups/create-family.tsx)

\* onSave, lines 13-30: "Create" is tapped with a name; addGroup reads the groups.
CreateOnSave ==
  /\ screen = "create"
  /\ createOp.pc = "idle"
  /\ groupsCount < MaxGroups
  /\ Tap
  /\ createOp' = [IdleHandler EXCEPT !.pc = "read", !.gs = groupsCount]
  /\ UNCHANGED <<ctxStore, usersItem, groupsCount, screen, gateVars, grpVars, profVars,
                 joinVars, otherThanApp>>

\* addGroup: the groups read are written back with the Family group in front.
CreateOnSaveWrite ==
  /\ createOp.pc = "read"
  /\ groupsCount' = createOp.gs + 1
  /\ createOp' = [createOp EXCEPT !.pc = "write"]
  /\ UNCHANGED <<ctxStore, usersItem, screen, taps, gateVars, grpVars, profVars, joinVars,
                 otherThanApp>>

\* addGroup resolves: router.back() to Groups.
CreateOnSaveBack ==
  /\ createOp.pc = "write"
  /\ grpLoad.pc = "idle"
  /\ screen' = "groups"
  /\ grpLoad' = StartLoad(appCtx)
  /\ createOp' = IdleHandler
  /\ UNCHANGED <<ctxStore, usersItem, groupsCount, taps, gateVars, grpS, grpSeed, profVars,
                 joinVars, otherThanApp>>

\* "Cancel" is tapped: router.back() to Groups.
CreateCancel ==
  /\ screen = "create"
  /\ createOp.pc = "idle"
  /\ grpLoad.pc = "idle"
  /\ Tap
  /\ screen' = "groups"
  /\ grpLoad' = StartLoad(appCtx)
  /\ UNCHANGED <<ctxStore, usersItem, groupsCount, gateVars, grpS, grpSeed, profVars,
                 joinVars, createOp, otherThanApp>>

NextApp ==
  \/ IndexRedirect
  \/ GateLoadCtx
  \/ GateLoadBackfill
  \/ GateLoadUsers
  \/ GateLoadGroups
  \/ GateLoadSave
  \/ \E scope \in ContextScope : GateChoose(scope)
  \/ GateChooseSave
  \/ GateEditIds
  \/ GroupsLoadCtx
  \/ GroupsLoadGroups
  \/ GroupsLoadUsers
  \/ GroupsLoadSave
  \/ \E next \in ContextScope : GroupsOnChangeSegment(next)
  \/ \E nextUserId \in UserIds : GroupsOnChangeUser(nextUserId)
  \/ GroupsDevSeed
  \/ GroupsDevSeedList
  \/ GroupsDevSeedUser
  \/ GroupsToProfile
  \/ GroupsToCreateFamily
  \/ GroupsToJoinFamily
  \/ GroupsToGate
  \/ ProfileLoadCtx
  \/ ProfileLoadUsers
  \/ \E text \in TypedCorporateIds : ProfileSetCorporateId(text)
  \/ ProfileOnSave
  \/ ProfileOnSaveUpsert
  \/ ProfileOnSaveList
  \/ ProfileOnSaveCtx
  \/ ProfileOnSaveClamp
  \/ ProfileOnSaveSaved
  \/ \E id \in UserIds : ProfileSetActiveUser(id)
  \/ ProfileSetActiveUserWrite
  \/ ProfileSetActiveUserList
  \/ ProfileSetActiveUserDone
  \/ ProfileToGroups
  \/ JoinLoadCtx
  \/ \E code \in FamilyCodes : JoinOnJoin(code)
  \/ JoinOnJoinGot
  \/ JoinOnJoinUpsert
  \/ JoinOnJoinBack
  \/ JoinCancel
  \/ CreateOnSave
  \/ CreateOnSaveWrite
  \/ CreateOnSaveBack
  \/ CreateCancel

(***************************************************************************)
(* The active context: src/storage/context.ts, the hook useActiveContext   *)
(* and the ContextSwitcher.  The screen that mounts them is not among the  *)
(* sources; as the specification has it, the active context changes when   *)
(* the user switches context, so the switcher's onChange is the hook's     *)
(* update.                                                                 *)
(***************************************************************************)
\* type ActiveContext: individual has no id and no name; the id of a family or
\* corporate value is any string, the empty one included.
ActiveIds == {"", "ORG-1"}

ActiveContextValues ==
  {[type |-> "individual", id |-> UNDEF, name |-> UNDEF]}
  \cup {[type |-> t, id |-> i, name |-> "Name"] : t \in {"family", "corporate"}, i \in ActiveIds}

IndividualContext == [type |-> "individual", id |-> UNDEF, name |-> UNDEF]

\* The item is the JSON text of the value, here the sequence of the values of
\* its fields; no item is the empty sequence.
NoActiveItem == <<>>

JSONstringifyActive(ctx) ==
  IF ctx.id = UNDEF THEN <<ctx.type>> ELSE <<ctx.type, ctx.id, ctx.name>>

getActiveContext(raw) ==
  IF raw = NoActiveItem THEN IndividualContext
  ELSE IF Len(raw) = 1 THEN [type |-> raw[1], id |-> UNDEF, name |-> UNDEF]
  ELSE [type |-> raw[1], id |-> raw[2], name |-> raw[3]]

toScope(ctx) ==
  CASE ctx.type = "individual" -> "individual"
    [] ctx.type = "family" -> "family"
    [] ctx.type = "corporate" -> "workplace"

\* Variant: the switcher lists every option it is given.
SwitcherOfferedAll(options) == options

\* The options the open switcher lists: options.filter(...)
SwitcherOffered(options) ==
  {opt \in options :
     isContextAvailable(toScope(opt),
       [kind |-> "object", id |-> "me",
        familyId |-> IF opt.type = "family" THEN opt.id ELSE UNDEF,
        corporateId |-> IF opt.type = "corporate" THEN opt.id ELSE UNDEF],
       NoOpts)}

InitActiveIdle ==
  /\ activeItem = NotOpened
  /\ hook = NotOpened
  /\ hookRefresh = NotOpened
  /\ switcher = NotOpened


\* The first render: useState's initial values, the switcher closed, nothing
\* stored yet; the options are those the screen passes.
InitActive ==
  /\ activeItem = NoActiveItem
  /\ hook = [ctx |-> IndividualContext, ready |-> FALSE]
  /\ hookRefresh = [pc |-> "effect", raw |-> NoActiveItem]
  /\ switcher \in [options : SUBSET ActiveContextValues, open : {FALSE}]

\* refresh, from the useEffect or from the screen: getActiveContext is called
\* and its getItem reads the item.
HookRefresh ==
  /\ hookRefresh.pc \in {"effect", "idle"}
  /\ hookRefresh' = [pc |-> "got", raw |-> activeItem]
  /\ UNCHANGED <<activeItem, hook, switcher, otherThanActive>>

\* refresh after its await: setCtx(next); setReady(true)
HookRefreshResolve ==
  /\ hookRefresh.pc = "got"
  /\ hook' = [ctx |-> getActiveContext(hookRefresh.raw), ready |-> TRUE]
  /\ hookRefresh' = [pc |-> "idle", raw |-> NoActiveItem]
  /\ UNCHANGED <<activeItem, switcher, otherThanActive>>

\* update(next): setCtx(next); await setActiveContext(next)
update(next) ==
  /\ hook' = [hook EXCEPT !.ctx = next]
  /\ activeItem' = JSONstringifyActive(next)

\* The screen's onChange.
ScreenOnChange(opt) == update(opt)

\* The pill is pressed: setOpen(true).  The effect of the first render has run
\* by the time the user can press.
SwitcherOpen ==
  /\ hookRefresh.pc # "effect"
  /\ ~switcher.open
  /\ switcher' = [switcher EXCEPT !.open = TRUE]
  /\ UNCHANGED <<activeItem, hook, hookRefresh, otherThanActive>>

SwitcherClose ==
  /\ switcher.open
  /\ switcher' = [switcher EXCEPT !.open = FALSE]
  /\ UNCHANGED <<activeItem, hook, hookRefresh, otherThanActive>>

\* A row of the open switcher is pressed: onChange(opt); setOpen(false)
SwitcherChoose(opt) ==
  /\ switcher.open
  /\ opt \in SwitcherOffered(switcher.options)
  /\ ScreenOnChange(opt)
  /\ switcher' = [switcher EXCEPT !.open = FALSE]
  /\ UNCHANGED <<hookRefresh, otherThanActive>>

NextActive ==
  \/ HookRefresh
  \/ HookRefreshResolve
  \/ SwitcherOpen
  \/ SwitcherClose
  \/ \E opt \in ActiveContextValues : SwitcherChoose(opt)

(***************************************************************************)
(* useMe (src/hooks/useMe.ts): refresh and the settling of its requests    *)
(***************************************************************************)
MaxRequests == 3

RequestIds == 1..MaxRequests

\* Bodies of /v1/me: one of shape A (mode and family.members) and one of shape
\* B (context.mode and family as a list); members are given by their ids.
MeRaws ==
  {[userId |-> "u_head", mode |-> "family", contextMode |-> UNDEF, familyMembers |-> TRUE,
    members |-> <<"u_head", "u_kid">>, activeMemberId |-> "u_kid"],
   [userId |-> "u_head", mode |-> UNDEF, contextMode |-> "corporate", familyMembers |-> FALSE,
    members |-> <<"u_head">>, activeMemberId |-> UNDEF]}

NoRaw ==
  [userId |-> UNDEF, mode |-> UNDEF, contextMode |-> UNDEF, familyMembers |-> FALSE,
   members |-> <<>>, activeMemberId |-> UNDEF]

\* What fetchJSON throws.
MeErrors == {"HTTP 500", "Network request failed"}

\* useState<MeResponse | null>(null)
NoMe ==
  [kind |-> NULL, userId |-> UNDEF, mode |-> UNDEF,
   family |-> [activeMemberId |-> NULL, members |-> <<>>]]

normalizeMe(raw) ==
  LET userId == OrElse(raw.userId, "u_self") IN
  IF Truthy(raw.mode) /\ raw.familyMembers
    THEN [kind |-> "object", userId |-> userId, mode |-> raw.mode,
          family |-> [activeMemberId |-> IF Truthy(raw.activeMemberId)
                                           THEN raw.activeMemberId ELSE NULL,
                      members |-> raw.members]]
  ELSE LET modeRaw == OrElse(raw.contextMode, OrElse(raw.mode, "individual"))
           mode == IF modeRaw \in {"family", "workplace", "individual"}
                     THEN modeRaw ELSE "individual"
       IN [kind |-> "object", userId |-> userId, mode |-> mode,
           family |-> [activeMemberId |-> IF userId \in Range(raw.members)
                                            THEN userId ELSE NULL,
                       members |-> raw.members]]

\* Variant: the requestId is not compared.
IsCurrentAlways(requestId, current) == TRUE

\* requestId === requestIdRef.current
IsCurrent(requestId, current) == requestId = current

NoRequest == [status |-> "none", raw |-> NoRaw, error |-> NULL]

InitMeIdle ==
  /\ useMeS = NotOpened
  /\ requestIdRef = NotOpened
  /\ meReqs = NotOpened

\* The first render, before its effect calls refresh.
InitMe ==
  /\ useMeS = [me |-> NoMe, loading |-> TRUE, error |-> NULL]
  /\ requestIdRef = 0
  /\ meReqs = [r \in RequestIds |-> NoRequest]

\* refresh up to its await: called by the effect, then by the screen.
MeRefresh ==
  /\ requestIdRef < MaxRequests
  /\ requestIdRef' = requestIdRef + 1
  /\ useMeS' = [useMeS EXCEPT !.loading = TRUE, !.error = NULL]
  /\ meReqs' = [meReqs EXCEPT ![requestIdRef + 1].status = "pending"]
  /\ UNCHANGED otherThanMe

\* fetchJSON resolves with raw: lines 238-241 and the finally block.
MeResponse(requestId, raw) ==
  /\ meReqs[requestId].status = "pending"
  /\ IF IsCurrent(requestId, requestIdRef)
       THEN /\ useMeS' = [useMeS EXCEPT !.me = normalizeMe(raw), !.loading = FALSE]
            /\ meReqs' = [meReqs EXCEPT ![requestId] = [status |-> "ok", raw |-> raw,
                                                         error |-> NULL]]
     ELSE /\ meReqs' = [meReqs EXCEPT ![requestId] = [status |-> "dropped", raw |-> raw,
                                                       error |-> NULL]]
          /\ UNCHANGED useMeS
  /\ UNCHANGED <<requestIdRef, otherThanMe>>

\* fetchJSON throws e: the catch block and the finally block.
MeFailure(requestId, e) ==
  /\ meReqs[requestId].status = "pending"
  /\ IF IsCurrent(requestId, requestIdRef)
       THEN /\ useMeS' = [me |-> NoMe, loading |-> FALSE, error |-> e]
            /\ meReqs' = [meReqs EXCEPT ![requestId] = [status |-> "failed", raw |-> NoRaw,
                                                         error |-> e]]
     ELSE /\ meReqs' = [meReqs EXCEPT ![requestId] = [status |-> "dropped", raw |-> NoRaw,
                                                       error |-> e]]
          /\ UNCHANGED useMeS
  /\ UNCHANGED <<requestIdRef, otherThanMe>>

NextMe ==
  \/ MeRefresh
  \/ \E requestId \in RequestIds, raw \in MeRaws : MeResponse(requestId, raw)
  \/ \E requestId \in RequestIds, e \in MeErrors : MeFailure(requestId, e)

(***************************************************************************)
(* AssignInsuranceScreen (app/groups/assign-insurance.tsx): onApply and    *)
(* the upsertUser calls it starts (src/storage/users.ts)                   *)
(***************************************************************************)
MemberIds == {"head", "spouse", "child"}

\* A UserProfile of the users store with its insuranceId.
InsuredUser(familyId, insuranceId) ==
  [present |-> TRUE, familyId |-> familyId, insuranceId |-> insuranceId]

\* The lists in the users store when the screen opens: the head and the spouse
\* are of the family FAM-1, the child may be.
InsStoredUsers ==
  {[u \in MemberIds |->
      CASE u = "head" -> InsuredUser("FAM-1", UNDEF)
        [] u = "spouse" -> InsuredUser("FAM-1", s)
        [] u = "child" -> InsuredUser(c, UNDEF)] :
     s \in {UNDEF, "INS-B"}, c \in {"FAM-1", UNDEF}}

\* Text the user types into the Insurance ID field, and
\* insuranceId.trim().toUpperCase()
TypedInsuranceIds == {" ", "ins-a"}

TrimToUpperCase(text) ==
  CASE text = "ins-a" -> "INS-A"
    [] text = " " -> ""
    [] OTHER -> text

\* familyMembers: users.filter((u) => u.familyId === activeFamilyId)
familyMembers(S) ==
  IF ~Truthy(S.activeFamilyId) THEN {}
  ELSE {u \in MemberIds : S.users[u].present /\ S.users[u].familyId = S.activeFamilyId}

\* The members onApply maps over: familyMembers.filter((u) => selectedIds[u.id])
SelectedMembers(S) == {u \in familyMembers(S) : S.selectedIds[u]}

\* upsertUser after listUsers has resolved with users: the list it saves.
upsertedList(users, id, user) == [users EXCEPT ![id] = user]

IdleUpsert ==
  [pc |-> "idle", users |-> [u \in MemberIds |-> InsuredUser(UNDEF, UNDEF)],
   user |-> InsuredUser(UNDEF, UNDEF)]

IdleApply == [pc |-> "idle", id |-> "", selected |-> {}, users |-> IdleUpsert.users]

\* The screen after its focus load for the acting user head: the users of the
\* store, the family of the head, the head's insuranceId or "", and every
\* family member selected.
InitIns ==
  /\ insUsersItem \in InsStoredUsers
  /\ insS = [users |-> insUsersItem, activeFamilyId |-> "FAM-1",
             insuranceId |-> Nullish(insUsersItem["head"].insuranceId, ""),
             selectedIds |-> [u \in MemberIds |-> insUsersItem[u].familyId = "FAM-1"],
             saving |-> FALSE]
  /\ insApply = IdleApply
  /\ upserts = [u \in MemberIds |-> IdleUpsert]

InsSetInsuranceId(text) ==
  /\ insS.insuranceId # text
  /\ insS' = [insS EXCEPT !.insuranceId = text]
  /\ UNCHANGED <<insUsersItem, insApply, upserts, otherThanIns>>

\* toggle(id): a member row is pressed.
InsToggle(id) ==
  /\ id \in familyMembers(insS)
  /\ insS' = [insS EXCEPT !.selectedIds[id] = ~insS.selectedIds[id]]
  /\ UNCHANGED <<insUsersItem, insApply, upserts, otherThanIns>>

\* onApply up to its first await: after the three early returns, one upsertUser
\* per selected family member is started, and each calls listUsers at once.
InsOnApply ==
  /\ ~insS.saving
  /\ insApply.pc = "idle"
  /\ LET id == TrimToUpperCase(insS.insuranceId) IN
       /\ Truthy(id)
       /\ Truthy(insS.activeFamilyId)
       /\ SelectedMembers(insS) # {}
       /\ insS' = [insS EXCEPT !.saving = TRUE]
       /\ insApply' = [pc |-> "all", id |-> id, selected |-> SelectedMembers(insS),
                       users |-> insS.users]
       /\ upserts' = [u \in MemberIds |->
                        IF u \in SelectedMembers(insS)
                          THEN [pc |-> "list", users |-> insUsersItem,
                                user |-> [insS.users[u] EXCEPT !.insuranceId = id]]
                        ELSE IdleUpsert]
  /\ UNCHANGED <<insUsersItem, otherThanIns>>

\* upsertUser(user): listUsers resolves, the entry is replaced or pushed and
\* saveUsers writes the list.
UpsertSave(id) ==
  /\ upserts[id].pc = "list"
  /\ insUsersItem' = upsertedList(upserts[id].users, id, upserts[id].user)
  /\ upserts' = [upserts EXCEPT ![id].pc = "save"]
  /\ UNCHANGED <<insS, insApply, otherThanIns>>

\* saveUsers resolves: upsertUser returns.
UpsertDone(id) ==
  /\ upserts[id].pc = "save"
  /\ upserts' = [upserts EXCEPT ![id].pc = "done"]
  /\ UNCHANGED <<insUsersItem, insS, insApply, otherThanIns>>

\* Promise.all resolves: refreshUsers calls listUsers.
InsRefreshUsers ==
  /\ insApply.pc = "all"
  /\ \A u \in insApply.selected : upserts[u].pc = "done"
  /\ insApply' = [insApply EXCEPT !.pc = "refresh", !.users = insUsersItem]
  /\ UNCHANGED <<insUsersItem, insS, upserts, otherThanIns>>

\* listUsers resolves: setUsers(refreshed), router.back(), setSaving(false).
InsBack ==
  /\ insApply.pc = "refresh"
  /\ insS' = [insS EXCEPT !.users = insApply.users, !.saving = FALSE]
  /\ insApply' = [insApply EXCEPT !.pc = "back"]
  /\ UNCHANGED <<insUsersItem, upserts, otherThanIns>>

NextIns ==
  \/ \E text \in TypedInsuranceIds : InsSetInsuranceId(text)
  \/ \E id \in MemberIds : InsToggle(id)
  \/ InsOnApply
  \/ \E id \in MemberIds : UpsertSave(id)
  \/ \E id \in MemberIds : UpsertDone(id)
  \/ InsRefreshUsers
  \/ InsBack

InitInsIdle ==
  /\ insUsersItem = NotOpened
  /\ insS = NotOpened
  /\ insApply = NotOpened
  /\ upserts = NotOpened

InitHooksIdle == InitActiveIdle /\ InitMeIdle /\ InitInsIdle

vars == <<rulesVars, storeVars, normalizeVars, appVars, hookVars>>

InitRulesIdle ==
  /\ desired = UNDEF
  /\ me = [kind |-> UNDEF, id |-> UNDEF, familyId |-> UNDEF, corporateId |-> UNDEF]
  /\ opts = [kind |-> UNDEF, hasFamilyGroup |-> UNDEF]
  /\ called = {}
  /\ availRet = [scope |-> NONE, value |-> FALSE]
  /\ clamped = NONE
  /\ reclamped = NONE
  /\ eligibility = NoEligibility
  /\ available = <<>>
  /\ filtered = [arg |-> NoEligibility, ret |-> <<>>]

InitSpecRules == InitRules /\ InitStoreIdle /\ InitNormalizeIdle /\ InitAppIdle /\ InitHooksIdle

SpecRules == InitSpecRules /\ [][NextRules]_vars

InitSpecStore == InitStore /\ InitRulesIdle /\ InitNormalizeIdle /\ InitAppIdle /\ InitHooksIdle

SpecStore == InitSpecStore /\ [][NextStore]_vars

InitSpecNormalize == InitNormalize /\ InitRulesIdle /\ InitStoreIdle /\ InitAppIdle /\ InitHooksIdle

SpecNormalize == InitSpecNormalize /\ [][NextNormalize]_vars

InitSpecApp == InitApp /\ InitRulesIdle /\ InitStoreIdle /\ InitNormalizeIdle /\ InitHooksIdle

SpecApp == InitSpecApp /\ [][NextApp]_vars

InitSpecActive ==
  /\ InitActive /\ InitMeIdle /\ InitInsIdle
  /\ InitRulesIdle /\ InitStoreIdle /\ InitNormalizeIdle /\ InitAppIdle

SpecActive == InitSpecActive /\ [][NextActive]_vars

InitSpecMe ==
  /\ InitMe /\ InitActiveIdle /\ InitInsIdle
  /\ InitRulesIdle /\ InitStoreIdle /\ InitNormalizeIdle /\ InitAppIdle

SpecMe == InitSpecMe /\ [][NextMe]_vars

InitSpecIns ==
  /\ InitIns /\ InitActiveIdle /\ InitMeIdle
  /\ InitRulesIdle /\ InitStoreIdle /\ InitNormalizeIdle /\ InitAppIdle

SpecIns == InitSpecIns /\ [][NextIns]_vars

(***************************************************************************)
(* What the specification says of the rules, stated on the arguments      *)
(* alone: which grants an actor and an options value carry.               *)
(***************************************************************************)
FamilyIdSet(m) == m.kind = "object" /\ m.familyId \notin {UNDEF, NULL, ""}
CorporateIdSet(m) == m.kind = "object" /\ m.corporateId \notin {UNDEF, NULL, ""}
HasFamilyGroupTrue(o) == o.kind = "object" /\ o.hasFamilyGroup = "true"

DeclaredOrder == <<"individual", "family", "workplace">>
Rank(s) == CHOOSE i \in 1..3 : DeclaredOrder[i] = s

EmptyActor == [kind |-> "object", id |-> UNDEF, familyId |-> UNDEF, corporateId |-> UNDEF]
EmptyOpts == [kind |-> "object", hasFamilyGroup |-> UNDEF]

ClampCalled == "clampContext" \in called

\* C1: clampContext is total: for every desired scope (or undefined), actor and
\* options it returns one of the three scopes, the returned scope is available
\* for that same actor and options, and clamp(undefined, {}, {}) is individual.
C1_ClampTotalAndAvailable ==
  ClampCalled =>
    /\ clamped \in ContextScope
    /\ isContextAvailable(clamped, me, opts)
    /\ (desired = UNDEF /\ me = EmptyActor /\ opts = EmptyOpts => clamped = "individual")

\* An unavailable desired scope with no actor and no options was clamped.
C1_Witness ==
  /\ ClampCalled
  /\ desired = "workplace"
  /\ me.kind = NULL
  /\ opts.kind = UNDEF
  /\ clamped = "individual"

\* C2: a desired scope that is defined and available is returned unchanged.
C2_ClampKeepsAvailable ==
  (ClampCalled /\ desired # UNDEF /\ isContextAvailable(desired, me, opts))
    => clamped = desired

\* Workplace was desired by an actor with a corporateId, and kept.
C2_Witness ==
  /\ ClampCalled
  /\ desired = "workplace"
  /\ CorporateIdSet(me)
  /\ clamped = "workplace"

\* C3: a desired scope that is undefined or not available is replaced by the
\* first available scope in the order individual, family, workplace, which is
\* individual for every actor and options, also when workplace is available.
C3_ClampFallsBackToIndividual ==
  (ClampCalled /\ (desired = UNDEF \/ ~isContextAvailable(desired, me, opts)))
    => /\ clamped \in ContextScope
       /\ isContextAvailable(clamped, me, opts)
       /\ \A s \in ContextScope :
            Rank(s) < Rank(clamped) => ~isContextAvailable(s, me, opts)
       /\ clamped = "individual"

\* The scenario of the specification: {id: "head", corporateId: "CORP-X"},
\* hasFamilyGroup false, family desired.
C3_Witness ==
  /\ ClampCalled
  /\ desired = "family"
  /\ me = [kind |-> "object", id |-> "head", familyId |-> UNDEF, corporateId |-> "CORP-X"]
  /\ opts = [kind |-> "object", hasFamilyGroup |-> "false"]
  /\ clamped = "individual"

\* C4: clampContext is idempotent: clamping its own result with the same actor
\* and options gives that result again.
C4_ClampIdempotent ==
  "clampContextAgain" \in called => reclamped = clamped

\* An unavailable scope was clamped, and the result clamped again.
C4_Witness ==
  /\ "clampContextAgain" \in called
  /\ desired = "workplace"
  /\ ~CorporateIdSet(me)
  /\ FamilyIdSet(me)
  /\ reclamped = "individual"

\* C5: individual is available for every actor and options, a null or
\* undefined actor and undefined options included.
C5_IndividualAlwaysAvailable ==
  availRet.scope = "individual" => availRet.value = TRUE

\* individual was asked for with an undefined actor and undefined options.
C5_Witness ==
  /\ availRet.scope = "individual"
  /\ me.kind = UNDEF
  /\ opts.kind = UNDEF
  /\ availRet.value = TRUE

\* C6: family is available if and only if the actor's familyId is set and
\* non-empty or hasFamilyGroup is true; so it is not available for an absent
\* actor with absent options, and corporateId plays no part.
C6_FamilyAvailability ==
  availRet.scope = "family" =>
    availRet.value = (FamilyIdSet(me) \/ HasFamilyGroupTrue(opts))

\* family was granted by hasFamilyGroup alone, to an actor with a corporateId
\* and an empty familyId.
C6_Witness ==
  /\ availRet.scope = "family"
  /\ me.kind = "object" /\ me.familyId = "" /\ CorporateIdSet(me)
  /\ HasFamilyGroupTrue(opts)
  /\ availRet.value = TRUE

\* C7: workplace is available if and only if the actor's corporateId is set
\* and non-empty; familyId and hasFamilyGroup play no part.
C7_WorkplaceAvailability ==
  availRet.scope = "workplace" => availRet.value = CorporateIdSet(me)

\* workplace was refused to an actor with an empty corporateId although the
\* actor has a familyId and a family group exists.
C7_Witness ==
  /\ availRet.scope = "workplace"
  /\ me.kind = "object" /\ me.corporateId = "" /\ FamilyIdSet(me)
  /\ HasFamilyGroupTrue(opts)
  /\ availRet.value = FALSE

\* C8: getContextEligibility has exactly the three scopes as entries, and each
\* entry equals isContextAvailable of that scope for the same actor and options.
C8_EligibilityIsDerivedView ==
  "getContextEligibility" \in called =>
    /\ DOMAIN eligibility = ContextScope
    /\ \A s \in ContextScope : eligibility[s] = isContextAvailable(s, me, opts)

\* The map was computed for an actor with a corporateId and no family grant.
C8_Witness ==
  /\ "getContextEligibility" \in called
  /\ CorporateIdSet(me) /\ ~FamilyIdSet(me) /\ ~HasFamilyGroupTrue(opts)
  /\ eligibility = [individual |-> TRUE, family |-> FALSE, workplace |-> TRUE]

\* C9: getAvailableContexts returns exactly the scopes marked true in the map,
\* each once, in the order individual, family, workplace, for every map.
C9_AvailableIsOrderedFilter ==
  "getAvailableContexts" \in called =>
    LET out == filtered.ret IN
      /\ {out[i] : i \in 1..Len(out)} = {s \in ContextScope : filtered.arg[s]}
      /\ \A i, j \in 1..Len(out) : i < j => Rank(out[i]) < Rank(out[j])

\* A map without individual was filtered.
C9_Witness ==
  /\ "getAvailableContexts" \in called
  /\ filtered.arg = [individual |-> FALSE, family |-> TRUE, workplace |-> TRUE]
  /\ filtered.ret = <<"family", "workplace">>

\* C10: the list of available contexts is non-empty and starts with individual:
\* for every map that marks individual, and for every map the program builds
\* (useContextGate lists the map getContextEligibility returns, which always
\* marks individual).
C10_AvailableStartsWithIndividual ==
  /\ ("getAvailableContexts" \in called /\ filtered.arg["individual"]) =>
       (filtered.ret # <<>> /\ Head(filtered.ret) = "individual")
  /\ "useContextGate" \in called =>
       (available # <<>> /\ Head(available) = "individual")

\* The hook listed the contexts of an actor with every grant.
C10_Witness ==
  /\ "useContextGate" \in called
  /\ FamilyIdSet(me) /\ CorporateIdSet(me)
  /\ available = <<"individual", "family", "workplace">>

(***************************************************************************)
(* Context storage: what the specification says of the normalizers and of *)
(* getAppContext / setAppContext.                                         *)
(***************************************************************************)

\* The table of the specification for legacy scope normalization.
ExpectedScope(seg) ==
  CASE seg \in {"individual", "family", "workplace"} -> seg
    [] seg = "Individual" -> "individual"
    [] seg = "Family" -> "family"
    [] seg = "Workplace" -> "workplace"
    [] seg \in {"you", "self"} -> "individual"
    [] seg = "corporate" -> "workplace"
    [] seg = "insurance" -> "individual"
    [] OTHER -> "individual"

GetCalls == {c \in Calls : calls[c].fn = "get"}
SetCalls == {c \in Calls : calls[c].fn = "set"}
Returned(c) == calls[c].status = "returned"

\* No setAppContext write was applied after write number p up to write number q.
NoSaveBetween(p, q) == \A i \in (p + 1)..q : writeLog[i].kind # "set"

\* C12: with no item stored, getAppContext returns {individual, "head"} and
\* writes it, and every later getAppContext with no setAppContext in between
\* returns the same record.
C12_DefaultReturnedAndPersisted ==
  /\ \A c \in GetCalls :
       (Returned(c) /\ calls[c].rawRead.kind = "null") =>
         /\ calls[c].ret = [segment |-> "individual", currentUserId |-> "head"]
         /\ calls[c].wroteAt > 0
         /\ writeLog[calls[c].wroteAt] = [by |-> c, kind |-> "backfill"]
  /\ (writeLog # <<>> /\ writeLog[Len(writeLog)].kind = "backfill") =>
       ctxItem = [kind |-> "object", segment |-> "individual", currentUserId |-> "head"]
  /\ \A c, d \in GetCalls :
       (/\ calls[c].rawRead.kind = "null" /\ calls[c].wroteAt > 0
        /\ Returned(d) /\ calls[d].readAt >= calls[c].wroteAt
        /\ NoSaveBetween(calls[c].wroteAt, calls[d].readAt))
       => calls[d].ret = [segment |-> "individual", currentUserId |-> "head"]

\* The first call found nothing and returned the default; the second call
\* read the item the first one wrote.
C12_Witness ==
  /\ calls[1].fn = "get" /\ Returned(1) /\ calls[1].rawRead.kind = "null"
  /\ calls[2].fn = "get" /\ Returned(2) /\ calls[2].rawRead.kind = "object"
  /\ calls[2].readAt = calls[1].wroteAt
  /\ calls[2].ret = calls[1].ret

\* C13: a stored value that does not parse never makes getAppContext raise a
\* parse error: it is treated as absent, and the call returns
\* {individual, "head"}.
C13_ParseFailureIsAbsent ==
  \A c \in GetCalls :
    calls[c].rawRead.kind = "garbage" =>
      /\ calls[c].error # "parse"
      /\ Returned(c) => calls[c].ret = [segment |-> "individual", currentUserId |-> "head"]
      /\ Returned(c) => calls[c].wroteAt > 0

\* A call read a string that does not parse and returned the default.
C13_Witness ==
  \E c \in GetCalls :
    /\ calls[c].rawRead.kind = "garbage"
    /\ Returned(c)
    /\ calls[c].ret = DEFAULTS

\* C14: a failing getItem is treated as "value absent": getAppContext raises
\* no error and yields {individual, "head"}.
C14_GetFailureIsAbsent ==
  \A c \in GetCalls :
    (calls[c].pc = "done" /\ calls[c].error = "getItem") =>
      /\ calls[c].status = "returned"
      /\ calls[c].ret = [segment |-> "individual", currentUserId |-> "head"]

\* C15: a getAppContext call that read a parsable record leaves the stored
\* item unchanged, also when it normalizes a legacy segment in its result.
C15_ReadOfRecordWritesNothing ==
  [][\A c \in Calls :
       (/\ calls[c].pc = "getItem"
        /\ calls[c].rawRead.kind = "object"
        /\ calls'[c].pc # "getItem")
       => (ctxItem' = ctxItem /\ writeLog' = writeLog /\ calls'[c].wroteAt = 0)]_vars

\* A legacy "Family" was returned as family and is still stored as "Family".
C15_Witness ==
  \E c \in GetCalls :
    /\ Returned(c)
    /\ calls[c].rawRead.segment = "Family"
    /\ calls[c].ret.segment = "family"
    /\ ctxItem.segment = "Family"
    /\ writeLog = <<>>

\* C16: a getAppContext that reads the item right after the write of
\* setAppContext(r), with no other write after it, returns r, whatever the
\* scope and the user id of r (no validation).
C16_SaveThenLoad ==
  \A c \in SetCalls, d \in GetCalls :
    (/\ calls[c].wroteAt > 0
     /\ calls[d].readAt = calls[c].wroteAt
     /\ Returned(d))
    => calls[d].ret = calls[c].arg

\* workplace was saved with an empty user id, and loaded back.
C16_Witness ==
  \E c \in SetCalls, d \in GetCalls :
    /\ Returned(c) /\ Returned(d)
    /\ calls[d].readAt = calls[c].wroteAt
    /\ calls[c].arg = [segment |-> "workplace", currentUserId |-> ""]
    /\ calls[d].ret = [segment |-> "workplace", currentUserId |-> ""]

\* C17: last write wins: when the write applied last is that of a
\* setAppContext call, the stored record is exactly the record passed to that
\* call, never a mix of the fields of two calls.
C17_LastWriteWins ==
  (writeLog # <<>> /\ writeLog[Len(writeLog)].kind = "set") =>
    LET r == calls[writeLog[Len(writeLog)].by].arg IN
      ctxItem = [kind |-> "object", segment |-> r.segment, currentUserId |-> r.currentUserId]

\* Two calls that differ in both fields wrote one after the other.
C17_Witness ==
  \E c, d \in SetCalls :
    /\ 0 < calls[c].wroteAt /\ calls[c].wroteAt < calls[d].wroteAt
    /\ calls[d].wroteAt = Len(writeLog)
    /\ calls[c].arg.segment # calls[d].arg.segment
    /\ calls[c].arg.currentUserId # calls[d].arg.currentUserId
    /\ Returned(c) /\ Returned(d)
    /\ ctxItem.segment = calls[d].arg.segment
    /\ ctxItem.currentUserId = calls[d].arg.currentUserId

(***************************************************************************)
(* The clamp on focus, after a mutation and on selection, stated on the    *)
(* stores: the scope and the user of the stored context, the memberships   *)
(* of that user in the users store and the Family groups of the groups     *)
(* store.                                                                  *)
(***************************************************************************)
ScopeAvailableFor(scope, m, hasFamilyGroup) ==
  CASE scope = "individual" -> TRUE
    [] scope = "family" -> FamilyIdSet(m) \/ hasFamilyGroup
    [] scope = "workplace" -> CorporateIdSet(m)
    [] OTHER -> FALSE

PersistedScopeAvailable ==
  /\ appCtx.kind = "object"
  /\ ScopeAvailableFor(appCtx.segment, FindUser(usersItem, appCtx.currentUserId),
                       groupsCount > 0)

\* The load of the Groups focus effect ends with the screen still in focus.
GroupsLoadCompletes ==
  (GroupsLoadUsers \/ GroupsLoadSave) /\ grpLoad.alive /\ grpLoad'.pc = "idle"

\* The load of the context gate opened at app start ends.
GateLoadCompletes ==
  (GateLoadGroups \/ GateLoadSave) /\ ~gateS.force /\ gateLoad'.pc = "idle"

\* C18: each time the Groups screen gains focus and its load completes, and
\* each time the context gate mounts and its load completes, the persisted
\* scope is afterwards available for the persisted actor.
C18_ClampOnFocus ==
  [][(GroupsLoadCompletes \/ GateLoadCompletes) => PersistedScopeAvailable']_vars

\* An operation that changes memberships ends: onSave of the profile, onJoin
\* of the join family screen, onSave of the create family screen.
ProfileOnSaveCompletes ==
  (ProfileOnSaveClamp \/ ProfileOnSaveSaved) /\ profSave'.pc = "idle"

MutationCompletes == ProfileOnSaveCompletes \/ JoinOnJoinBack \/ CreateOnSaveBack

\* C19: after every operation that changes a stored user's familyId or
\* corporateId or the stored groups completes, the persisted scope is
\* available for the current actor under the updated data.
C19_ClampAfterMutation == [][MutationCompletes => PersistedScopeAvailable']_vars

\* The scopes available for the actor a screen holds: the user with the
\* screen's currentUserId in the users it loaded, and the Family group flag
\* it loaded.
AvailableScopes(m, hasFamilyGroup) ==
  {scope \in ContextScope : ScopeAvailableFor(scope, m, hasFamilyGroup)}

OptionsAreTheAvailableScopes ==
  /\ Range(GateOptions(gateS)) = AvailableScopes(GateMe(gateS), gateS.hasFamilyGroup)
  /\ Range(SEGMENTS(grpS)) = AvailableScopes(GroupsMe(grpS), GroupsHasFamilyGroup(grpS))

SelectionIsSavedAs(scope, currentUserId) ==
  appCtx' = [kind |-> "object", segment |-> scope, currentUserId |-> currentUserId]

IdMatchesTag(type, id) ==
  \/ type = "individual" /\ id = UNDEF
  \/ type \in {"family", "corporate"} /\ id \notin {UNDEF, NULL, ""}

ItemIdMatchesTag(raw) ==
  \/ raw = <<>>
  \/ Len(raw) = 1 /\ raw[1] = "individual"
  \/ Len(raw) = 3 /\ raw[1] \in {"family", "corporate"} /\ raw[2] # ""

OnFamily == appCtx.kind = "object" /\ appCtx.segment = "family"

\* A step in which a screen clamps the scope family: the gate's load, the
\* Groups load, onChangeUser and the profile's onSave.
ClampsFamily ==
  \/ GateLoadGroups /\ gateLoad.ctx.segment = "family"
  \/ GroupsLoadUsers /\ grpLoad.ctx.segment = "family"
  \/ (\E nextUserId \in UserIds : GroupsOnChangeUser(nextUserId)) /\ grpS.segment = "family"
  \/ ProfileOnSaveClamp /\ ContextRead(profSave).segment = "family"

\* C22: no step removes a Family group, and while a Family group is stored no
\* clamp of the scope family moves the persisted scope off family, whatever
\* the acting user's familyId.
C22_FamilyGroupKeepsFamily ==
  [][ /\ groupsCount' >= groupsCount
      /\ (groupsCount > 0 /\ OnFamily /\ ClampsFamily) => OnFamily' ]_vars

(***************************************************************************)
(* The Groups screen against the persisted record                          *)
(***************************************************************************)
NoHandlerInFlight ==
  \A h \in {gateLoad, gateChoose, grpLoad, grpSeed, profLoad, profSave, profSetUser,
            joinLoad, joinOp, createOp} : h.pc = "idle"

GroupsStateIsPersisted ==
  /\ appCtx.kind = "object"
  /\ grpS.segment = appCtx.segment
  /\ grpS.currentUserId = appCtx.currentUserId

\* C23: on the Groups screen, once no handler is in flight the segment and the
\* currentUserId of the screen state are those of the persisted record; and a
\* segment tapped while the focus load is in flight leaves a persisted
\* currentUserId other than "head" as it is.
C23_GroupsStateMatchesStore ==
  [][ /\ (screen' = "groups" /\ NoHandlerInFlight') => GroupsStateIsPersisted'
      /\ \A next \in ContextScope :
           (GroupsOnChangeSegment(next) /\ grpLoad.pc # "idle" /\ appCtx.kind = "object"
              /\ appCtx.currentUserId # "head")
             => appCtx'.currentUserId = appCtx.currentUserId ]_vars

(***************************************************************************)
(* The clamp of the profile's onSave against the clamp of the Groups       *)
(* screen and the gate                                                     *)
(***************************************************************************)
\* The user onSave has stored.
SavedActor ==
  [kind |-> "object", id |-> profSave.id, familyId |-> profSave.prof.familyId,
   corporateId |-> profSave.prof.corporateId]

\* The scope the Groups screen and the gate keep or fall back to for the scope
\* read, the actor and the stored Family groups.
ClampedWithGroups(read, actor) ==
  IF ScopeAvailableFor(read, actor, groupsCount > 0) THEN read ELSE "individual"

\* C24: the scope onSave computes for the scope it read and the user it stored
\* is the one the clamp with { hasFamilyGroup } gives: when onSave writes, it
\* writes that scope, and when it does not write, that scope is the one read.
C24_ProfileClampsAsGroups ==
  [][ ProfileOnSaveClamp =>
        LET read == ContextRead(profSave).segment
        IN /\ profSave'.pc = "save" => appCtx'.segment = ClampedWithGroups(read, SavedActor)
           /\ profSave'.pc = "idle" => read = ClampedWithGroups(read, SavedActor) ]_vars

(***************************************************************************)
(* The frame of the profile's setActiveUser                                *)
(***************************************************************************)
\* C25: the write of setActiveUser(id) sets the persisted currentUserId to id
\* and leaves the persisted segment as it was immediately before the write,
\* whatever other handlers wrote since setActiveUser read the record.
C25_SetActiveUserKeepsSegment ==
  [][ (ProfileSetActiveUserWrite /\ appCtx.kind = "object") =>
        /\ appCtx'.currentUserId = profSetUser.id
        /\ appCtx'.segment = appCtx.segment ]_vars

(***************************************************************************)
(* onChangeUser of the Groups screen, tapped or called by devSeed          *)
(***************************************************************************)
\* The record and the screen state the claim gives for the user nextUserId:
\* the segment of the screen clamped for that user as stored.
ChangedUserRecord(nextUserId) ==
  [kind |-> "object",
   segment |-> ClampedWithGroups(grpS.segment, FindUser(usersItem, nextUserId)),
   currentUserId |-> nextUserId]

UserChangedTo(nextUserId, record) ==
  /\ appCtx' = record
  /\ grpS'.segment = record.segment
  /\ grpS'.currentUserId = nextUserId
  /\ PersistedScopeAvailable'

\* C26: onChangeUser(nextUserId) persists the screen's segment clamped for the
\* stored user nextUserId and the stored Family groups, with currentUserId
\* nextUserId, sets the screen state to that pair, and the persisted segment
\* is then available for the persisted user; so does the onChangeUser("head")
\* that devSeed calls after seeding.
C26_OnChangeUserClamps ==
  [][ /\ \A nextUserId \in UserIds :
           GroupsOnChangeUser(nextUserId) =>
             UserChangedTo(nextUserId, ChangedUserRecord(nextUserId))
      /\ GroupsDevSeedUser => UserChangedTo("head", ChangedUserRecord("head")) ]_vars

(***************************************************************************)
(* The frame of the gate's load                                            *)
(***************************************************************************)
\* The record getAppContext returned to the load, as an item of the store.
GateReturnedItem(h) ==
  [kind |-> "object", segment |-> h.ctx.segment, currentUserId |-> h.ctx.currentUserId]

\* The saved scope is eligible for the resolved user of the lists the load read.
GateSavedEligible ==
  ScopeAvailableFor(gateLoad.ctx.segment,
                    FindUser(gateLoad.us, gateLoad.ctx.currentUserId), gateLoad.gs > 0)

GateShown == screen = "gate" /\ ~gateS.loading

\* C27: the steps of the gate's load leave the persisted record as it is,
\* but for two writes.  getAppContext, having read no record, stores the one
\* it returns.  When the three results are in: a forced gate or an eligible
\* saved scope writes nothing; without force an eligible scope goes to the
\* Groups tab with the gate not shown, and an ineligible one is persisted as
\* individual with the currentUserId that was read, the gate not yet shown.
C27_GateLoadFrame ==
  [][ /\ GateLoadCtx =>
           \/ appCtx' = appCtx
           \/ gateLoad.raw.kind # "object" /\ appCtx' = GateReturnedItem(gateLoad')
      /\ (GateLoadBackfill \/ GateLoadUsers \/ GateLoadSave) => appCtx' = appCtx
      /\ GateLoadGroups =>
           /\ (gateS.force \/ GateSavedEligible) => appCtx' = appCtx
           /\ (~gateS.force /\ GateSavedEligible) => (screen' = "groups" /\ ~GateShown')
           /\ (~gateS.force /\ ~GateSavedEligible) =>
                /\ appCtx' = [GateReturnedItem(gateLoad) EXCEPT !.segment = "individual"]
                /\ ~GateShown' ]_vars

\* Before any tap the gate is shown with the record {individual, spouse}: the
\* saved scope was not eligible for the spouse and the load replaced it.
C27_Witness ==
  /\ GateShown
  /\ ~gateS.force
  /\ taps = 0
  /\ gateLoad.pc = "idle"
  /\ appCtx = [kind |-> "object", segment |-> "individual", currentUserId |-> "spouse"]

(***************************************************************************)
(* useMe: only the latest request counts                                   *)
(***************************************************************************)
\* me, loading and error against the most recently issued request.
LatestRequestRules ==
  requestIdRef > 0 =>
    LET latest == meReqs[requestIdRef] IN
      /\ latest.status \in {"pending", "ok", "failed"}
      /\ latest.status = "pending" => useMeS.loading
      /\ latest.status = "ok" =>
           /\ ~useMeS.loading
           /\ useMeS.me.kind = "object" /\ useMeS.me = normalizeMe(latest.raw)
           /\ useMeS.error = NULL
      /\ latest.status = "failed" =>
           /\ ~useMeS.loading
           /\ useMeS.error = latest.error /\ useMeS.error \in MeErrors
           /\ useMeS.me.kind = NULL

OlderRequestSettles ==
  \E requestId \in RequestIds :
    /\ requestId # requestIdRef
    /\ \/ \E raw \in MeRaws : MeResponse(requestId, raw)
       \/ \E e \in MeErrors : MeFailure(requestId, e)

\* C28: a response or a failure of a request older than the latest changes
\* none of me, loading and error; loading is true while the latest request
\* is pending; once it has settled loading is false and either me is its
\* normalized response and error is null, or error is its failure and me is
\* null.
C28_OnlyLatestRequestCounts ==
  [][ /\ LatestRequestRules'
      /\ OlderRequestSettles => useMeS' = useMeS ]_vars

\* The third request has set me after the response of the first and the
\* failure of the second were dropped.
C28_Witness ==
  /\ requestIdRef = 3
  /\ meReqs[1].status = "dropped" /\ meReqs[1].raw \in MeRaws
  /\ meReqs[2].status = "dropped" /\ meReqs[2].error \in MeErrors
  /\ meReqs[3].status = "ok" /\ meReqs[3].raw # meReqs[1].raw
  /\ useMeS.me = normalizeMe(meReqs[3].raw)
  /\ ~useMeS.loading

(***************************************************************************)
(* upsertUser: no update is lost                                           *)
(***************************************************************************)
\* The stored list after onApply, as the claim has it: the applied id on every
\* selected member, every other field and user as when onApply started.
AppliedList ==
  [u \in MemberIds |->
     IF u \in insApply.selected
       THEN [insApply.users[u] EXCEPT !.insuranceId = insApply.id]
     ELSE insApply.users[u]]

\* C29: when every upsertUser that onApply started has completed, the stored
\* list has the applied insuranceId on every selected member and is otherwise
\* unchanged; and the write of one upsertUser(u) leaves the entry of u.id equal
\* to u and every other entry as it was stored.
C29_UpsertsNotLost ==
  [][ /\ InsRefreshUsers => insUsersItem = AppliedList
      /\ \A id \in MemberIds :
           UpsertSave(id) =>
             /\ insUsersItem'[id] = upserts[id].user
             /\ \A o \in MemberIds \ {id} : insUsersItem'[o] = insUsersItem[o] ]_vars

====
